---- MODULE Spec2Model ----
(***************************************************************************)
(* A model of the pymyo client (src/pymyo/myo.py): the Myo session object, *)
(* its Event registries, the command methods that write frames to the      *)
(* COMMAND characteristic and the notification callbacks that decode       *)
(* frames and fan them out to the registered observers.                    *)
(*                                                                         *)
(* The BleakClient held in Myo._device is the external Link.  Every        *)
(* `await self._device.<op>(...)` is a suspension point: a coroutine is    *)
(* modelled by one action up to the await (the call) and one action from   *)
(* the await on (the resume), the Link deciding whether the awaited        *)
(* operation succeeds, fails or is cancelled.  Code between two awaits     *)
(* runs without interleaving, as asyncio runs it.                          *)
(***************************************************************************)
EXTENDS Integers, Sequences, FiniteSets, TLC

VARIABLES
    _emg_mode,          \* Myo._emg_mode
    _imu_mode,          \* Myo._imu_mode
    _classifier_mode,   \* Myo._classifier_mode
    _sleep_mode,        \* Myo._sleep_mode
    _battery_notifications_enabled,  \* Myo._battery_notifications_enabled
    _observers,         \* event name -> Event._observers of that Event
    _device,            \* the BleakClient: connection, subscriptions, writes
    tasks,              \* the coroutines running command methods
    connecting,         \* the coroutine running connect()
    delivery,           \* the last notification callback invocation
    violated,           \* a classifier frame of unknown type was delivered
    history             \* when kept: the frames delivered and the calls made

vars == <<_emg_mode, _imu_mode, _classifier_mode, _sleep_mode,
          _battery_notifications_enabled, _observers, _device, tasks,
          connecting, delivery, violated, history>>

modeVars == <<_emg_mode, _imu_mode, _classifier_mode>>

-----------------------------------------------------------------------------
(* Bounds of the model.                                                    *)

\* Coroutines that may run command methods at the same time.
MaxTasks == 2
\* Callbacks registered over all events of one session.
MaxRegistrations == 2
\* The number of frames of which a history is kept.
MaxFrames == 3
\* The number of Link calls of which a history is kept.
MaxCalls == 4

Tasks == 1..MaxTasks

-----------------------------------------------------------------------------
(* src/pymyo/types.py: the enumerations.                                   *)

\* The default `None` of an optional argument: no value of any enumeration.
None == -1

EmgMode_NONE == 0
EmgMode_PROCESSED == 1
EmgMode_EMG == 2
EmgMode_EMG_RAW == 3
EmgMode == {EmgMode_NONE, EmgMode_PROCESSED, EmgMode_EMG, EmgMode_EMG_RAW}

ImuMode_NONE == 0
ImuMode_DATA == 1
ImuMode_EVENTS == 2
ImuMode_ALL == 3
ImuMode_RAW == 4
ImuMode == {ImuMode_NONE, ImuMode_DATA, ImuMode_EVENTS, ImuMode_ALL, ImuMode_RAW}

ClassifierMode_DISABLED == 0
ClassifierMode_ENABLED == 1
ClassifierMode == {ClassifierMode_DISABLED, ClassifierMode_ENABLED}

SleepMode_NORMAL == 0
SleepMode_NEVER_SLEEP == 1
SleepMode == {SleepMode_NORMAL, SleepMode_NEVER_SLEEP}

VibrationType == {0, 1, 2, 3}
UnlockType == {0, 1, 2}
UserActionType == {0}

-----------------------------------------------------------------------------
(* struct.pack / struct.unpack, as far as the client uses them.            *)

IsByte(b) == b \in 0..255

\* struct.pack("<nB", *values): one byte per value, each in 0..255;
\* struct.error for a value out of that range.
struct_pack_B(values) ==
    IF \A k \in 1..Len(values) : IsByte(values[k])
    THEN [error |-> "none", data |-> values]
    ELSE [error |-> "struct.error", data |-> <<>>]

-----------------------------------------------------------------------------
(* The characteristics of _BTChar.                                         *)

INFO == "INFO"
FIRMWARE == "FIRMWARE"
COMMAND == "COMMAND"
BATTERY == "BATTERY"
NAME == "NAME"
IMU == "IMU"
MOTION == "MOTION"
CLASSIFIER == "CLASSIFIER"
EMG_SMOOTH == "EMG_SMOOTH"
EMG0 == "EMG0"
EMG1 == "EMG1"
EMG2 == "EMG2"
EMG3 == "EMG3"

NotifyChars == {BATTERY, IMU, MOTION, CLASSIFIER, EMG_SMOOTH, EMG0, EMG1, EMG2, EMG3}

-----------------------------------------------------------------------------
(* The frames of the command methods: the struct.pack call of each, with   *)
(* the exception that leaves the method before the write when the frame    *)
(* cannot be built.                                                        *)

VIBRATE2_STEPS == 6

\* struct.pack("<H", x): two bytes, low byte first, for x in 0..65535.
pack_H(x) == <<x % 256, x \div 256>>

\* The concatenation of the elements of a sequence of sequences, as
\* itertools.chain(*steps) yields them.
RECURSIVE chain(_)
chain(seqs) ==
    IF seqs = <<>> THEN <<>> ELSE Head(seqs) \o chain(Tail(seqs))

\* struct.pack("HB" * n, *flat) for little-endian packing: a 16-bit
\* duration and an 8-bit strength per step.
RECURSIVE pack_HB(_)
pack_HB(flat) ==
    IF Len(flat) < 2 THEN <<>>
    ELSE pack_H(flat[1]) \o <<flat[2]>> \o pack_HB(SubSeq(flat, 3, Len(flat)))

Packed(data) == [error |-> "none", data |-> data]
PackError(error) == [error |-> error, data |-> <<>>]

\* set_mode with the mode bytes in the order imu, emg, classifier.
set_mode_frame_swapped(emg_mode, imu_mode, classifier_mode) ==
    struct_pack_B(<<1, 3, imu_mode, emg_mode, classifier_mode>>)

set_mode_frame(emg_mode, imu_mode, classifier_mode) ==
    struct_pack_B(<<1, 3, emg_mode, imu_mode, classifier_mode>>)

set_sleep_mode_frame(sleep_mode) == struct_pack_B(<<9, 1, sleep_mode>>)

vibrate_frame(vibration_type) == struct_pack_B(<<3, 1, vibration_type>>)

deep_sleep_frame == Packed(<<4, 0>>)

set_led_colors_frame(logo_rgb, status_rgb) ==
    IF Len(logo_rgb) + Len(status_rgb) # 6 THEN PackError("struct.error")
    ELSE struct_pack_B(<<6, 6>> \o logo_rgb \o status_rgb)

\* vibrate2 without the check of the number of steps.
vibrate2_frame_unchecked(steps) ==
    LET nb_steps == Len(steps)
    IN LET flat_steps ==
               chain(steps \o [k \in 1..(VIBRATE2_STEPS - nb_steps) |-> <<0, 0>>])
       IN IF /\ Len(flat_steps) = 2 * VIBRATE2_STEPS
             /\ \A k \in 1..Len(flat_steps) :
                   IF k % 2 = 1 THEN flat_steps[k] \in 0..65535
                   ELSE IsByte(flat_steps[k])
          THEN Packed(<<7, 20>> \o pack_HB(flat_steps))
          ELSE PackError("struct.error")

\* struct.pack("<2B" + VIBRATE2_STEPS * "HB", 7, 20, *flat_steps) takes
\* exactly 2 * VIBRATE2_STEPS values after the two header bytes, an H at the
\* odd places and a B at the even ones; anything else is struct.error.
vibrate2_frame(steps) ==
    LET nb_steps == Len(steps)
    IN IF nb_steps > VIBRATE2_STEPS THEN PackError("ValueError")
       ELSE LET flat_steps ==
                    chain(steps \o [k \in 1..(VIBRATE2_STEPS - nb_steps) |-> <<0, 0>>])
            IN IF /\ Len(flat_steps) = 2 * VIBRATE2_STEPS
                  /\ \A k \in 1..Len(flat_steps) :
                        IF k % 2 = 1 THEN flat_steps[k] \in 0..65535
                        ELSE IsByte(flat_steps[k])
               THEN Packed(<<7, 20>> \o pack_HB(flat_steps))
               ELSE PackError("struct.error")

unlock_frame(unlock_type) == struct_pack_B(<<10, 1, unlock_type>>)

user_action_frame(action_type) == struct_pack_B(<<11, 1, action_type>>)

-----------------------------------------------------------------------------
(* Myo.set_mode.                                                           *)

\* One of `if x is None: x = self._x`.
MergeModeZero(requested, current) ==
    IF requested = None THEN 0 ELSE requested

MergeMode(requested, current) ==
    IF requested = None THEN current ELSE requested

\* What the coroutine sees when the awaited Link operation ends.
ResultOf(outcome) ==
    CASE outcome = "ok" -> "returned"
      [] outcome = "failed" -> "raised"
      [] outcome = "cancelled" -> "cancelled"

\* The three assignments that follow the awaited write: they run only when
\* the await returns, and then all three run before anything else does.
ModeAfterWriteEager(outcome, requested, current) ==
    requested

ModeAfterWritePartial(outcome, requested, current) ==
    IF outcome = "ok" THEN requested
    ELSE <<requested[1], current[2], current[3]>>

ModeAfterWrite(outcome, requested, current) ==
    IF outcome = "ok" THEN requested ELSE current

IdleTask ==
    [op |-> "none", pc |-> "idle", args |-> <<>>, locals |-> <<>>,
     pre |-> <<>>, writes |-> <<>>, overlapped |-> FALSE,
     after_violation |-> FALSE, link |-> "none", result |-> "none",
     error |-> "none", reads |-> <<>>, value |-> <<>>]

\* The coroutines suspended in an awaited Link operation.
InFlight == {u \in Tasks : tasks[u].pc = "awaiting"}

\* A write for which no acknowledgment is requested.
WriteRecordUnacknowledged(char, data) ==
    [char |-> char, data |-> data, response |-> FALSE]

WriteRecord(char, data) == [char |-> char, data |-> data, response |-> TRUE]

\* set_mode up to `await self._device.write_gatt_char(...)`.
set_mode_call(t, emg_mode, imu_mode, classifier_mode) ==
    /\ tasks[t].pc # "awaiting"
    /\ LET e == MergeMode(emg_mode, _emg_mode)
           i == MergeMode(imu_mode, _imu_mode)
           c == MergeMode(classifier_mode, _classifier_mode)
           frame == set_mode_frame(e, i, c)
           call == [op |-> "set_mode", pc |-> "awaiting",
                    args |-> <<emg_mode, imu_mode, classifier_mode>>,
                    locals |-> <<e, i, c>>,
                    pre |-> <<_emg_mode, _imu_mode, _classifier_mode>>,
                    writes |-> <<>>, overlapped |-> InFlight # {},
                    after_violation |-> violated,
                    link |-> "none", result |-> "none", error |-> "none",
                    reads |-> <<>>, value |-> <<>>]
           others == [u \in Tasks |->
                        IF u \in InFlight
                        THEN [tasks[u] EXCEPT !.overlapped = TRUE]
                        ELSE tasks[u]]
       IN IF frame.error # "none"
          THEN /\ tasks' = [others EXCEPT ![t] =
                              [call EXCEPT !.pc = "done", !.result = "raised",
                                           !.error = frame.error]]
               /\ UNCHANGED _device
          ELSE /\ tasks' = [others EXCEPT ![t] =
                              [call EXCEPT !.writes = <<WriteRecord(COMMAND, frame.data)>>]]
               /\ _device' = [_device EXCEPT !.last_write = WriteRecord(COMMAND, frame.data)]
    /\ UNCHANGED <<_emg_mode, _imu_mode, _classifier_mode, _sleep_mode,
                   _battery_notifications_enabled, _observers, connecting,
                   delivery, violated, history>>

\* set_mode from the await on: the Link acknowledges the write, fails it, or
\* the coroutine is cancelled while suspended in it.
set_mode_resume(t, outcome) ==
    /\ tasks[t].pc = "awaiting"
    /\ tasks[t].op = "set_mode"
    /\ LET after == ModeAfterWrite(outcome, tasks[t].locals,
                                   <<_emg_mode, _imu_mode, _classifier_mode>>)
       IN /\ _emg_mode' = after[1]
          /\ _imu_mode' = after[2]
          /\ _classifier_mode' = after[3]
    /\ tasks' = [tasks EXCEPT ![t].pc = "done", ![t].link = outcome,
                                ![t].result = ResultOf(outcome)]
    /\ _device' = IF outcome = "ok"
                  THEN [_device EXCEPT !.acked = tasks[t].writes[1]]
                  ELSE _device
    /\ UNCHANGED <<_sleep_mode, _battery_notifications_enabled, _observers,
                   connecting, delivery, violated, history>>

LinkOutcomes == {"ok", "failed", "cancelled"}

-----------------------------------------------------------------------------
(* The other command methods.  Each builds its frame and awaits one write  *)
(* of it to COMMAND; set_sleep_mode then assigns _sleep_mode.              *)

\* A method that writes, up to `await self._device.write_gatt_char(...)`, or
\* to the exception raised while its bytes are built.
command_call(t, op, char, args, frame) ==
    /\ tasks[t].pc # "awaiting"
    /\ LET call == [IdleTask EXCEPT
                       !.op = op, !.pc = "awaiting", !.args = args,
                       !.pre = <<_emg_mode, _imu_mode, _classifier_mode, _sleep_mode>>,
                       !.overlapped = InFlight # {},
                       !.after_violation = violated]
           others == [u \in Tasks |->
                        IF u \in InFlight
                        THEN [tasks[u] EXCEPT !.overlapped = TRUE]
                        ELSE tasks[u]]
       IN IF frame.error # "none"
          THEN /\ tasks' = [others EXCEPT ![t] =
                              [call EXCEPT !.pc = "done", !.result = "raised",
                                           !.error = frame.error]]
               /\ UNCHANGED _device
          ELSE /\ tasks' = [others EXCEPT ![t] =
                              [call EXCEPT !.writes = <<WriteRecord(char, frame.data)>>]]
               /\ _device' = [_device EXCEPT !.last_write = WriteRecord(char, frame.data)]
    /\ UNCHANGED <<_emg_mode, _imu_mode, _classifier_mode, _sleep_mode,
                   _battery_notifications_enabled, _observers, connecting,
                   delivery, violated, history>>

set_sleep_mode_call(t, sleep_mode) ==
    command_call(t, "set_sleep_mode", COMMAND, <<sleep_mode>>, set_sleep_mode_frame(sleep_mode))

vibrate_call(t, vibration_type) ==
    command_call(t, "vibrate", COMMAND, <<vibration_type>>, vibrate_frame(vibration_type))

deep_sleep_call(t) ==
    command_call(t, "deep_sleep", COMMAND, <<>>, deep_sleep_frame)

set_led_colors_call(t, logo_rgb, status_rgb) ==
    command_call(t, "set_led_colors", COMMAND, <<logo_rgb, status_rgb>>,
                 set_led_colors_frame(logo_rgb, status_rgb))

vibrate2_call(t, steps) ==
    command_call(t, "vibrate2", COMMAND, steps, vibrate2_frame(steps))

unlock_call(t, unlock_type) ==
    command_call(t, "unlock", COMMAND, <<unlock_type>>, unlock_frame(unlock_type))

user_action_call(t, action_type) ==
    command_call(t, "user_action", COMMAND, <<action_type>>, user_action_frame(action_type))

\* str.encode(): the UTF-8 bytes of a string, given as its code points; a
\* surrogate cannot be encoded.
str_encode(name) ==
    LET utf8(cp) ==
            IF cp < 128 THEN <<cp>>
            ELSE IF cp < 2048 THEN <<192 + (cp \div 64), 128 + (cp % 64)>>
            ELSE IF cp < 65536
                 THEN <<224 + (cp \div 4096), 128 + ((cp \div 64) % 64),
                        128 + (cp % 64)>>
                 ELSE <<240 + (cp \div 262144), 128 + ((cp \div 4096) % 64),
                        128 + ((cp \div 64) % 64), 128 + (cp % 64)>>
        RECURSIVE bytes_from(_)
        bytes_from(k) ==
            IF k > Len(name) THEN <<>> ELSE utf8(name[k]) \o bytes_from(k + 1)
    IN IF \E k \in 1..Len(name) : name[k] \in 55296..57343
       THEN [error |-> "UnicodeEncodeError", data |-> <<>>]
       ELSE [error |-> "none", data |-> bytes_from(1)]

\* bytes.decode(): the code points of UTF-8 bytes; UnicodeDecodeError for
\* bytes that are not UTF-8.
bytes_decode(value) ==
    LET cont(k) == k <= Len(value) /\ value[k] \in 128..191
        RECURSIVE points_from(_)
        points_from(k) ==
            IF k > Len(value) THEN <<>>
            ELSE LET b == value[k] IN
                 IF b < 128 THEN <<b>> \o points_from(k + 1)
                 ELSE IF b \in 194..223 /\ cont(k + 1)
                 THEN <<(b - 192) * 64 + (value[k + 1] - 128)>>
                      \o points_from(k + 2)
                 ELSE IF /\ b \in 224..239 /\ cont(k + 1) /\ cont(k + 2)
                         /\ b = 224 => value[k + 1] >= 160
                         /\ b = 237 => value[k + 1] <= 159
                 THEN <<(b - 224) * 4096 + (value[k + 1] - 128) * 64
                        + (value[k + 2] - 128)>> \o points_from(k + 3)
                 ELSE IF /\ b \in 240..244
                         /\ cont(k + 1) /\ cont(k + 2) /\ cont(k + 3)
                         /\ b = 240 => value[k + 1] >= 144
                         /\ b = 244 => value[k + 1] <= 143
                 THEN <<(b - 240) * 262144 + (value[k + 1] - 128) * 4096
                        + (value[k + 2] - 128) * 64 + (value[k + 3] - 128)>>
                      \o points_from(k + 4)
                 ELSE <<-1>>
        points == points_from(1)
    IN IF \E k \in 1..Len(points) : points[k] = -1
       THEN [error |-> "UnicodeDecodeError", value |-> <<>>]
       ELSE [error |-> "none", value |-> <<points>>]

\* set_name up to its `await self._device.write_gatt_char(NAME, ...)`.
set_name_call(t, name) ==
    command_call(t, "set_name", NAME, <<name>>, str_encode(name))

\* set_name from the await on: a Link without the characteristic makes it
\* raise UnsupportedFeatureError; any other exception leaves it as it is.
set_name_resume(t, outcome) ==
    /\ tasks[t].pc = "awaiting"
    /\ tasks[t].op = "set_name"
    /\ tasks' = [tasks EXCEPT
                    ![t].pc = "done", ![t].link = outcome,
                    ![t].result = IF outcome = "not_found" THEN "raised"
                                  ELSE ResultOf(outcome),
                    ![t].error = IF outcome = "not_found"
                                 THEN "UnsupportedFeatureError" ELSE "none"]
    /\ _device' = IF outcome = "ok"
                  THEN [_device EXCEPT !.acked = tasks[t].writes[1]]
                  ELSE _device
    /\ UNCHANGED <<_emg_mode, _imu_mode, _classifier_mode, _sleep_mode,
                   _battery_notifications_enabled, _observers, connecting,
                   delivery, violated, history>>

\* set_sleep_mode assigning _sleep_mode before the write is awaited.
SleepModeAfterWriteEager(outcome, requested, current) ==
    requested

\* The assignment that follows the awaited write of set_sleep_mode.
SleepModeAfterWrite(outcome, requested, current) ==
    IF outcome = "ok" THEN requested ELSE current

\* set_sleep_mode from the await on: the assignment runs when the write
\* returns.
set_sleep_mode_resume(t, outcome) ==
    /\ tasks[t].pc = "awaiting"
    /\ tasks[t].op = "set_sleep_mode"
    /\ _sleep_mode' = SleepModeAfterWrite(outcome, tasks[t].args[1], _sleep_mode)
    /\ tasks' = [tasks EXCEPT ![t].pc = "done", ![t].link = outcome,
                                ![t].result = ResultOf(outcome)]
    /\ _device' = IF outcome = "ok"
                  THEN [_device EXCEPT !.acked = tasks[t].writes[1]]
                  ELSE _device
    /\ UNCHANGED <<_emg_mode, _imu_mode, _classifier_mode,
                   _battery_notifications_enabled, _observers, connecting,
                   delivery, violated, history>>

\* vibrate, deep_sleep, set_led_colors, vibrate2, unlock and user_action from
\* the await on: nothing follows the write.
command_resume(t, outcome) ==
    /\ tasks[t].pc = "awaiting"
    /\ tasks[t].op \in {"vibrate", "deep_sleep", "set_led_colors", "vibrate2",
                        "unlock", "user_action"}
    /\ tasks' = [tasks EXCEPT ![t].pc = "done", ![t].link = outcome,
                                ![t].result = ResultOf(outcome)]
    /\ _device' = IF outcome = "ok"
                  THEN [_device EXCEPT !.acked = tasks[t].writes[1]]
                  ELSE _device
    /\ UNCHANGED <<_emg_mode, _imu_mode, _classifier_mode, _sleep_mode,
                   _battery_notifications_enabled, _observers, connecting,
                   delivery, violated, history>>

-----------------------------------------------------------------------------
(* class Event: the observers of one event and their notification.         *)

Events == {"on_emg", "on_emg_smooth", "on_imu", "on_tap", "on_sync",
           "on_pose", "on_lock", "on_battery"}

\* The callbacks a caller registers: f and g return, bad raises.
Callbacks == {"f", "g", "bad"}

Raises(callback) == callback = "bad"

\* The callbacks registered so far, over all events.
Registered ==
    Len(_observers["on_emg"]) + Len(_observers["on_emg_smooth"])
    + Len(_observers["on_imu"]) + Len(_observers["on_tap"])
    + Len(_observers["on_sync"]) + Len(_observers["on_pose"])
    + Len(_observers["on_lock"]) + Len(_observers["on_battery"])

\* Event.__call__: self._observers.append(callback).
Event_call(event, callback) ==
    /\ Registered < MaxRegistrations
    /\ _observers' = [_observers EXCEPT ![event] = Append(@, callback)]
    /\ UNCHANGED <<_emg_mode, _imu_mode, _classifier_mode, _sleep_mode,
                   _battery_notifications_enabled, _device, tasks, connecting,
                   delivery, violated, history>>

\* The loop of Event.notify from index k on: each observer is called with
\* the arguments of notify; an exception of an observer leaves the loop.
RECURSIVE notify_from(_, _, _, _)
notify_from(observers, k, args, calls) ==
    IF k > Len(observers)
    THEN [calls |-> calls, error |-> "none"]
    ELSE LET called == Append(calls, [observer |-> observers[k], args |-> args])
         IN IF Raises(observers[k])
            THEN [calls |-> called, error |-> "listener"]
            ELSE notify_from(observers, k + 1, args, called)

\* An Event that calls a callback registered more than once only once, at
\* its first registration.
Event_notify_unique(observers, args) ==
    LET RECURSIVE first_bound(_)
        first_bound(k) ==
            IF k > Len(observers) THEN <<>>
            ELSE IF \E j \in 1..(k - 1) : observers[j] = observers[k]
                 THEN first_bound(k + 1)
                 ELSE <<observers[k]>> \o first_bound(k + 1)
    IN notify_from(first_bound(1), 1, args, <<>>)

\* Event.notify(*args).
Event_notify(observers, args) ==
    notify_from(observers, 1, args, <<>>)

-----------------------------------------------------------------------------
(* Decoding of notification frames.                                        *)

\* struct's "b" and "h": two's complement.
Signed8(b) == IF b >= 128 THEN b - 256 ELSE b

U16LE(lo, hi) == lo + 256 * hi

Signed16LE(lo, hi) == IF U16LE(lo, hi) >= 32768 THEN U16LE(lo, hi) - 65536
                      ELSE U16LE(lo, hi)

Abs(x) == IF x < 0 THEN -x ELSE x

RECURSIVE GCD(_, _)
GCD(a, b) == IF b = 0 THEN a ELSE GCD(b, a % b)

\* Python's x / d for an int x and a power of two d is exact: the quotient is
\* kept as the fraction <<numerator, denominator>> in lowest terms.
TrueDiv(x, d) == LET g == GCD(Abs(x), d) IN <<x \div g, d \div g>>

Arm == {1, 2, 255}
XDirection == {1, 2, 255}
Pose == {0, 1, 2, 3, 4, 5, 255}

Arm_UNKNOWN == 255
XDirection_UNKNOWN == 255
SyncResult_FAILED_TOO_HARD == 1

ClassifierEventType_ARM_SYNCED == 1
ClassifierEventType_ARM_UNSYNCED == 2
ClassifierEventType_POSE == 3
ClassifierEventType_UNLOCKED == 4
ClassifierEventType_LOCKED == 5
ClassifierEventType_SYNC_FAILED == 6

MotionEventType_TAP == 0

\* What a notification callback does up to its call of notify: the event it
\* notifies and the arguments, or the exception it raises before that.
Notifies(event, args) == [error |-> "none", event |-> event, args |-> args]
RaisesError(error) == [error |-> error, event |-> "none", args |-> <<>>]

\* Myo._on_battery: ord(value).
_on_battery(value) ==
    IF Len(value) # 1 THEN RaisesError("TypeError")
    ELSE Notifies("on_battery", <<value[1]>>)

\* _on_emg reading the sixteen values as unsigned ("<16B").
_on_emg_unsigned(value) ==
    IF Len(value) # 16 THEN RaisesError("struct.error")
    ELSE Notifies("on_emg", << <<SubSeq(value, 1, 8), SubSeq(value, 9, 16)>> >>)

\* Myo._on_emg: struct.unpack("<16b", value), notified as (emg[:8], emg[8:]).
_on_emg(value) ==
    IF Len(value) # 16 THEN RaisesError("struct.error")
    ELSE LET emg == [k \in 1..16 |-> Signed8(value[k])]
         IN Notifies("on_emg", << <<SubSeq(emg, 1, 8), SubSeq(emg, 9, 16)>> >>)

\* Myo._on_emg_smooth: struct.unpack("<8Hx", value).
_on_emg_smooth(value) ==
    IF Len(value) # 17 THEN RaisesError("struct.error")
    ELSE Notifies("on_emg_smooth",
                  << [k \in 1..8 |-> U16LE(value[2 * k - 1], value[2 * k])] >>)

\* _on_imu reading the ten values as unsigned ("<10H").
_on_imu_unsigned(value) ==
    IF Len(value) # 20 THEN RaisesError("struct.error")
    ELSE LET imu_data == [k \in 1..10 |-> U16LE(value[2 * k - 1], value[2 * k])]
             orientation == [k \in 1..4 |-> TrueDiv(imu_data[k], 16384)]
             accelerometer == [k \in 1..3 |-> TrueDiv(imu_data[4 + k], 2048)]
             gyroscope == [k \in 1..3 |-> TrueDiv(imu_data[7 + k], 16)]
         IN Notifies("on_imu", <<orientation, accelerometer, gyroscope>>)

\* Myo._on_imu: struct.unpack("<10h", value), scaled.
_on_imu(value) ==
    IF Len(value) # 20 THEN RaisesError("struct.error")
    ELSE LET imu_data == [k \in 1..10 |-> Signed16LE(value[2 * k - 1], value[2 * k])]
             orientation == [k \in 1..4 |-> TrueDiv(imu_data[k], 16384)]
             accelerometer == [k \in 1..3 |-> TrueDiv(imu_data[4 + k], 2048)]
             gyroscope == [k \in 1..3 |-> TrueDiv(imu_data[7 + k], 16)]
         IN Notifies("on_imu", <<orientation, accelerometer, gyroscope>>)

\* _on_motion notifying the event of another characteristic.
_on_motion_misrouted(value) ==
    IF Len(value) # 3 THEN RaisesError("struct.error")
    ELSE Notifies("on_imu", <<value[2], value[3]>>)

\* Myo._on_motion: struct.unpack("<3B", value); the event type is not read.
_on_motion(value) ==
    IF Len(value) # 3 THEN RaisesError("struct.error")
    ELSE Notifies("on_tap", <<value[2], value[3]>>)

\* _on_classifier with the pose passed on as read, as the listener of the
\* synchronous client does (src/pymyo.py, MyoListener.on_classifier).
_on_classifier_unvalidated(value) ==
    IF Len(value) # 3 THEN RaisesError("struct.error")
    ELSE CASE value[1] = ClassifierEventType_ARM_SYNCED ->
                IF value[2] \in Arm /\ value[3] \in XDirection
                THEN Notifies("on_sync", <<value[2], value[3]>>)
                ELSE RaisesError("ValueError")
           [] value[1] = ClassifierEventType_ARM_UNSYNCED ->
                Notifies("on_sync", <<Arm_UNKNOWN, XDirection_UNKNOWN>>)
           [] value[1] = ClassifierEventType_POSE ->
                Notifies("on_pose", <<U16LE(value[2], value[3])>>)
           [] value[1] = ClassifierEventType_UNLOCKED ->
                Notifies("on_lock", <<FALSE>>)
           [] value[1] = ClassifierEventType_LOCKED ->
                Notifies("on_lock", <<TRUE>>)
           [] value[1] = ClassifierEventType_SYNC_FAILED ->
                Notifies("on_sync", <<Arm_UNKNOWN, XDirection_UNKNOWN,
                                      SyncResult_FAILED_TOO_HARD>>)
           [] OTHER -> RaisesError("RuntimeError")

\* Myo._on_classifier: struct.unpack("<B2s", value), then by event type.
\* _on_classifier with the arguments of the two lock events exchanged.
_on_classifier_lock_swapped(value) ==
    IF Len(value) # 3 THEN RaisesError("struct.error")
    ELSE CASE value[1] = ClassifierEventType_ARM_SYNCED ->
                IF value[2] \in Arm /\ value[3] \in XDirection
                THEN Notifies("on_sync", <<value[2], value[3]>>)
                ELSE RaisesError("ValueError")
           [] value[1] = ClassifierEventType_ARM_UNSYNCED ->
                Notifies("on_sync", <<Arm_UNKNOWN, XDirection_UNKNOWN>>)
           [] value[1] = ClassifierEventType_POSE ->
                IF U16LE(value[2], value[3]) \in Pose
                THEN Notifies("on_pose", <<U16LE(value[2], value[3])>>)
                ELSE RaisesError("ValueError")
           [] value[1] = ClassifierEventType_UNLOCKED ->
                Notifies("on_lock", <<TRUE>>)
           [] value[1] = ClassifierEventType_LOCKED ->
                Notifies("on_lock", <<FALSE>>)
           [] value[1] = ClassifierEventType_SYNC_FAILED ->
                Notifies("on_sync", <<Arm_UNKNOWN, XDirection_UNKNOWN,
                                      SyncResult_FAILED_TOO_HARD>>)
           [] OTHER -> RaisesError("RuntimeError")

_on_classifier(value) ==
    IF Len(value) # 3 THEN RaisesError("struct.error")
    ELSE CASE value[1] = ClassifierEventType_ARM_SYNCED ->
                IF value[2] \in Arm /\ value[3] \in XDirection
                THEN Notifies("on_sync", <<value[2], value[3]>>)
                ELSE RaisesError("ValueError")
           [] value[1] = ClassifierEventType_ARM_UNSYNCED ->
                Notifies("on_sync", <<Arm_UNKNOWN, XDirection_UNKNOWN>>)
           [] value[1] = ClassifierEventType_POSE ->
                IF U16LE(value[2], value[3]) \in Pose
                THEN Notifies("on_pose", <<U16LE(value[2], value[3])>>)
                ELSE RaisesError("ValueError")
           [] value[1] = ClassifierEventType_UNLOCKED ->
                Notifies("on_lock", <<FALSE>>)
           [] value[1] = ClassifierEventType_LOCKED ->
                Notifies("on_lock", <<TRUE>>)
           [] value[1] = ClassifierEventType_SYNC_FAILED ->
                Notifies("on_sync", <<Arm_UNKNOWN, XDirection_UNKNOWN,
                                      SyncResult_FAILED_TOO_HARD>>)
           [] OTHER -> RaisesError("RuntimeError")

\* The callback bound to a characteristic by start_notify.
Callback(handler, value) ==
    CASE handler = "_on_battery" -> _on_battery(value)
      [] handler = "_on_emg" -> _on_emg(value)
      [] handler = "_on_emg_smooth" -> _on_emg_smooth(value)
      [] handler = "_on_imu" -> _on_imu(value)
      [] handler = "_on_motion" -> _on_motion(value)
      [] handler = "_on_classifier" -> _on_classifier(value)

\* Myo.connect: the subscriptions, in the order they are made.
\* connect() with only the first EMG characteristic subscribed.
SubscriptionsOneEmg ==
    << <<IMU, "_on_imu">>, <<MOTION, "_on_motion">>,
       <<CLASSIFIER, "_on_classifier">>, <<EMG_SMOOTH, "_on_emg_smooth">>,
       <<EMG0, "_on_emg">> >>

Subscriptions ==
    << <<IMU, "_on_imu">>, <<MOTION, "_on_motion">>,
       <<CLASSIFIER, "_on_classifier">>, <<EMG_SMOOTH, "_on_emg_smooth">>,
       <<EMG0, "_on_emg">>, <<EMG1, "_on_emg">>, <<EMG2, "_on_emg">>,
       <<EMG3, "_on_emg">> >>

NoHistory == [on |-> FALSE, frames |-> <<>>, seen |-> <<>>, calls |-> <<>>]

NoDelivery ==
    [char |-> "none", value |-> <<>>, handler |-> "none", event |-> "none",
     args |-> <<>>, observers |-> <<>>, calls |-> <<>>, error |-> "none",
     pc |-> "idle"]

\* A session whose Link ends on a protocol violation: the subscriptions are
\* dropped when a callback raises.
SubsAfterFatal(error) ==
    IF error = "none" THEN _device.subs
    ELSE [c \in NotifyChars |-> "none"]

SubsAfter(error) == _device.subs

\* A callback that drops a frame equal to the one before it.
InvokeCoalesced(char, value, handler, decoded) ==
    IF decoded.error = "none"
    THEN [char |-> char, value |-> value, handler |-> handler,
          event |-> decoded.event, args |-> decoded.args,
          observers |-> _observers[decoded.event], pc |-> "done"]
         @@ (IF delivery.char = char /\ delivery.value = value
             THEN [calls |-> <<>>, error |-> "none"]
             ELSE Event_notify(_observers[decoded.event], decoded.args))
    ELSE [char |-> char, value |-> value, handler |-> handler,
          event |-> "none", args |-> <<>>, observers |-> <<>>,
          calls |-> <<>>, error |-> decoded.error, pc |-> "done"]

\* One invocation of a notification callback: the frame is decoded and, if
\* that raised nothing, the event is notified; `observers` is the list the
\* notification went through, `error` the exception that left the callback.
Invoke(char, value, handler, decoded) ==
    IF decoded.error = "none"
    THEN [char |-> char, value |-> value, handler |-> handler,
          event |-> decoded.event, args |-> decoded.args,
          observers |-> _observers[decoded.event], pc |-> "done"]
         @@ Event_notify(_observers[decoded.event], decoded.args)
    ELSE [char |-> char, value |-> value, handler |-> handler,
          event |-> "none", args |-> <<>>, observers |-> <<>>,
          calls |-> <<>>, error |-> decoded.error, pc |-> "done"]

\* The Link delivers a notification of a subscribed characteristic: it calls
\* the callback bound to it by start_notify.
Deliver(char, value) ==
    /\ _device.subs[char] # "none"
    /\ delivery' = Invoke(char, value, _device.subs[char],
                          Callback(_device.subs[char], value))
    /\ violated' = (violated \/ delivery'.error = "RuntimeError")
    /\ _device' = [_device EXCEPT !.subs = SubsAfter(delivery'.error)]
    /\ history' =
         IF history.on
         THEN [history EXCEPT
                  !.frames = Append(@, [char |-> char, value |-> value]),
                  !.seen = @ \o [k \in 1..Len(delivery'.calls) |->
                                   [observer |-> delivery'.calls[k].observer,
                                    event |-> delivery'.event,
                                    args |-> delivery'.calls[k].args]]]
         ELSE history
    /\ UNCHANGED <<_emg_mode, _imu_mode, _classifier_mode, _sleep_mode,
                   _battery_notifications_enabled, _observers, tasks, connecting>>

-----------------------------------------------------------------------------
(* Event.notify with callbacks that register callbacks: the loop          *)
(* `for observer in self._observers` one iteration at a time.  A list      *)
(* iterator reads the length of the list at every iteration, so an entry   *)
(* appended by a callback is reached by the loop that is running.          *)

\* Callbacks that register on the event they are called for: adds_f
\* registers f, adds_itself registers itself; f registers nothing.
Registers(callback) ==
    CASE callback = "adds_f" -> "f"
      [] callback = "adds_itself" -> "adds_itself"
      [] OTHER -> "none"

\* The entry the iterator yields at index k, "none" when the list, as it is
\* now, has no such index.
NextObserver(current, k) ==
    IF k <= Len(current) THEN current[k] ELSE "none"

\* The Link invokes the callback of a characteristic: the frame is decoded
\* and notify starts its loop; `observers` is the list as notify found it.
notify_begin(char, value) ==
    /\ delivery.pc # "running"
    /\ _device.subs[char] # "none"
    /\ LET handler == _device.subs[char]
           decoded == Callback(handler, value)
       IN /\ delivery' =
               IF decoded.error = "none"
               THEN [char |-> char, value |-> value, handler |-> handler,
                     event |-> decoded.event, args |-> decoded.args,
                     observers |-> _observers[decoded.event],
                     calls |-> <<>>, error |-> "none", pc |-> "running"]
               ELSE [char |-> char, value |-> value, handler |-> handler,
                     event |-> "none", args |-> <<>>, observers |-> <<>>,
                     calls |-> <<>>, error |-> decoded.error, pc |-> "done"]
          /\ violated' = (violated \/ decoded.error = "RuntimeError")
    /\ UNCHANGED <<_emg_mode, _imu_mode, _classifier_mode, _sleep_mode,
                   _battery_notifications_enabled, _observers, _device, tasks,
                   connecting, history>>

\* One iteration of the loop of notify: the next observer is called, and
\* registers what it registers; the loop ends when the iterator is exhausted
\* or the observer raises.
notify_next ==
    /\ delivery.pc = "running"
    /\ LET observer == NextObserver(_observers[delivery.event],
                                    Len(delivery.calls) + 1)
       IN IF observer = "none"
          THEN /\ delivery' = [delivery EXCEPT !.pc = "done"]
               /\ UNCHANGED _observers
          ELSE /\ Registers(observer) # "none" => Registered < MaxRegistrations
               /\ delivery' =
                    [delivery EXCEPT
                        !.calls = Append(@, [observer |-> observer,
                                             args |-> delivery.args]),
                        !.error = IF Raises(observer) THEN "listener" ELSE @,
                        !.pc = IF Raises(observer) THEN "done" ELSE @]
               /\ _observers' =
                    IF Registers(observer) # "none"
                    THEN [_observers EXCEPT
                             ![delivery.event] = Append(@, Registers(observer))]
                    ELSE _observers
    /\ UNCHANGED <<_emg_mode, _imu_mode, _classifier_mode, _sleep_mode,
                   _battery_notifications_enabled, _device, tasks, connecting,
                   violated, history>>

-----------------------------------------------------------------------------
(* The properties info and firmware_version: one read of the              *)
(* characteristic, awaited, and the decoding of the bytes read.            *)

HardwareRev == {0, 1, 2}
ClassifierModelType == {0, 1}
SKU == {0, 1, 2}

\* struct.unpack("<4H", value) and FirmwareVersion(...).
firmware_version_unpack(value) ==
    IF Len(value) # 8 THEN [error |-> "struct.error", value |-> <<>>]
    ELSE LET major == U16LE(value[1], value[2])
             minor == U16LE(value[3], value[4])
             patch == U16LE(value[5], value[6])
             hardware_rev == U16LE(value[7], value[8])
         IN IF hardware_rev \in HardwareRev
            THEN [error |-> "none", value |-> <<major, minor, patch, hardware_rev>>]
            ELSE [error |-> "ValueError", value |-> <<>>]

\* struct.unpack("<6sH5B7x", value) and FirmwareInfo(...).
info_unpack(value) ==
    IF Len(value) # 20 THEN [error |-> "struct.error", value |-> <<>>]
    ELSE LET sn == SubSeq(value, 1, 6)
             up == U16LE(value[7], value[8])
             act == value[9]
             aci == value[10]
             hcs == value[11]
             si == value[12]
             sku == value[13]
         IN IF up \in Pose /\ act \in ClassifierModelType /\ sku \in SKU
            THEN [error |-> "none",
                  value |-> <<sn, up, act, aci, hcs # 0, si # 0, sku>>]
            ELSE [error |-> "ValueError", value |-> <<>>]

\* The property up to `await self._device.read_gatt_char(...)`.
read_call(t, op, char) ==
    /\ tasks[t].pc # "awaiting"
    /\ tasks' = [tasks EXCEPT ![t] =
                    [IdleTask EXCEPT
                        !.op = op, !.pc = "awaiting",
                        !.pre = <<char \in _device.read>>,
                        !.reads = <<char>>]]
    /\ UNCHANGED <<_emg_mode, _imu_mode, _classifier_mode, _sleep_mode,
                   _battery_notifications_enabled, _observers, _device,
                   connecting, delivery, violated, history>>

\* The property from the await on: the bytes read are decoded and the value
\* is returned, or the exception of the read or of the decoding leaves it.
read_resume(t, op, outcome, decoded) ==
    /\ tasks[t].pc = "awaiting"
    /\ tasks[t].op = op
    /\ IF outcome = "ok"
       THEN /\ tasks' = [tasks EXCEPT
                            ![t].pc = "done", ![t].link = outcome,
                            ![t].result = IF decoded.error = "none"
                                          THEN "returned" ELSE "raised",
                            ![t].error = decoded.error,
                            ![t].value = decoded.value]
            /\ _device' = IF decoded.error = "none"
                          THEN [_device EXCEPT !.read = @ \cup {tasks[t].reads[1]}]
                          ELSE _device
       ELSE /\ tasks' = [tasks EXCEPT ![t].pc = "done", ![t].link = outcome,
                                       ![t].result = ResultOf(outcome)]
            /\ UNCHANGED _device
    /\ UNCHANGED <<_emg_mode, _imu_mode, _classifier_mode, _sleep_mode,
                   _battery_notifications_enabled, _observers,
                   connecting, delivery, violated, history>>

info_call(t) == read_call(t, "info", INFO)

info_resume(t, outcome, value) ==
    read_resume(t, "info", outcome, info_unpack(value))

firmware_version_call(t) == read_call(t, "firmware_version", FIRMWARE)

firmware_version_resume(t, outcome, value) ==
    read_resume(t, "firmware_version", outcome, firmware_version_unpack(value))

-----------------------------------------------------------------------------
(* Myo.__init__.                                                           *)

NoWrite == [char |-> "none", data |-> <<>>, response |-> FALSE]

Init ==
    /\ _emg_mode = EmgMode_NONE
    /\ _imu_mode = ImuMode_NONE
    /\ _classifier_mode = ClassifierMode_DISABLED
    /\ _sleep_mode = SleepMode_NORMAL
    /\ _battery_notifications_enabled = FALSE
    /\ _observers = [ev \in Events |-> <<>>]
    /\ _device = [connected |-> FALSE, subs |-> [c \in NotifyChars |-> "none"],
                  last_write |-> NoWrite, acked |-> NoWrite, read |-> {}]
    /\ tasks = [t \in Tasks |-> IdleTask]
    /\ connecting = [pc |-> "idle", step |-> 0, calls |-> <<>>]
    /\ delivery = NoDelivery
    /\ violated = FALSE
    /\ history = NoHistory

-----------------------------------------------------------------------------
(* Myo.connect, Myo.disconnect and the battery subscription.               *)

\* A call connect() makes on the Link.
LinkCall(op, char, handler) == [op |-> op, char |-> char, handler |-> handler]

\* The Link calls of a connect() that has run to its end.
ConnectCalls ==
    <<LinkCall("connect", "none", "none")>>
    \o [k \in 1..Len(Subscriptions) |->
          LinkCall("start_notify", Subscriptions[k][1], Subscriptions[k][2])]

\* connect up to `await self._device.connect()`.
connect_call ==
    /\ connecting.pc # "awaiting"
    /\ connecting' = [pc |-> "awaiting", step |-> 0,
                      calls |-> SubSeq(ConnectCalls, 1, 1)]
    /\ UNCHANGED <<_emg_mode, _imu_mode, _classifier_mode, _sleep_mode,
                   _battery_notifications_enabled, _observers, _device, tasks,
                   delivery, violated, history>>

\* connect from an await on: step 0 is the await of self._device.connect(),
\* step k the await of the k-th start_notify.  An exception of the awaited
\* call leaves connect at once.
connect_resume(outcome) ==
    /\ connecting.pc = "awaiting"
    /\ IF outcome = "ok"
       THEN /\ _device' =
                 IF connecting.step = 0
                 THEN [_device EXCEPT !.connected = TRUE]
                 ELSE [_device EXCEPT
                          !.subs[Subscriptions[connecting.step][1]] =
                              Subscriptions[connecting.step][2]]
            /\ connecting' =
                 IF connecting.step = Len(Subscriptions)
                 THEN [connecting EXCEPT !.pc = "returned"]
                 ELSE [connecting EXCEPT
                          !.step = @ + 1,
                          !.calls = SubSeq(ConnectCalls, 1, connecting.step + 2)]
       ELSE /\ connecting' = [connecting EXCEPT !.pc = ResultOf(outcome)]
            /\ UNCHANGED _device
    /\ UNCHANGED <<_emg_mode, _imu_mode, _classifier_mode, _sleep_mode,
                   _battery_notifications_enabled, _observers, tasks,
                   delivery, violated, history>>

\* disconnect up to `await self._device.disconnect()`.
disconnect_call(t) ==
    /\ tasks[t].pc # "awaiting"
    /\ tasks' = [tasks EXCEPT ![t] =
                    [IdleTask EXCEPT !.op = "disconnect", !.pc = "awaiting"]]
    /\ UNCHANGED <<_emg_mode, _imu_mode, _classifier_mode, _sleep_mode,
                   _battery_notifications_enabled, _observers, _device,
                   connecting, delivery, violated, history>>

\* disconnect from its await on: when the Link's disconnect returns, the Link
\* has dropped the connection and with it every subscription; an exception
\* or a cancellation leaves the Link as it was.
disconnect_resume(t, outcome) ==
    /\ tasks[t].pc = "awaiting"
    /\ tasks[t].op = "disconnect"
    /\ tasks' = [tasks EXCEPT ![t].pc = "done", ![t].link = outcome,
                                ![t].result = ResultOf(outcome)]
    /\ _device' =
         IF outcome = "ok"
         THEN [_device EXCEPT !.connected = FALSE,
                              !.subs = [c \in NotifyChars |-> "none"]]
         ELSE _device
    /\ UNCHANGED <<_emg_mode, _imu_mode, _classifier_mode, _sleep_mode,
                   _battery_notifications_enabled, _observers,
                   connecting, delivery, violated, history>>

\* The guard of enable_battery_notifications and of
\* disable_battery_notifications: the Link is called when the flag is not
\* yet what the method sets it to.
FlagRequiresCallAlways(enabled, requested) == TRUE

FlagRequiresCall(enabled, requested) == enabled # requested

\* enable_battery_notifications and disable_battery_notifications up to the
\* await of start_notify or stop_notify, or to their end when the flag is
\* what they set it to already.
battery_call(t, op, requested, link_op) ==
    /\ tasks[t].pc # "awaiting"
    /\ history.on => Len(history.calls) < MaxCalls
    /\ LET awaits == FlagRequiresCall(_battery_notifications_enabled, requested)
       IN /\ tasks' = [tasks EXCEPT ![t] =
                         [IdleTask EXCEPT
                             !.op = op,
                             !.pc = IF awaits THEN "awaiting" ELSE "done",
                             !.args = <<requested>>,
                             !.pre = <<_battery_notifications_enabled>>,
                             !.locals = IF awaits
                                        THEN <<Len(history.calls) + 1>> ELSE <<>>,
                             !.result = IF awaits THEN "none" ELSE "returned"]]
          /\ history' =
               IF awaits /\ history.on
               THEN [history EXCEPT
                        !.calls = Append(@, [op |-> link_op, outcome |-> "pending"])]
               ELSE history
    /\ UNCHANGED <<_emg_mode, _imu_mode, _classifier_mode, _sleep_mode,
                   _battery_notifications_enabled, _observers, _device,
                   connecting, delivery, violated>>

\* The two methods from the await on: the flag is assigned when the await
\* returns; an exception or a cancellation leaves the method before it.
\* enable_battery_notifications raises UnsupportedFeatureError when the Link
\* has no such characteristic; disable_battery_notifications lets that
\* exception of the Link through as it is.
battery_resume(t, op, outcome) ==
    /\ tasks[t].pc = "awaiting"
    /\ tasks[t].op = op
    /\ tasks' = [tasks EXCEPT
                    ![t].pc = "done", ![t].link = outcome,
                    ![t].result = IF outcome = "not_found" THEN "raised"
                                  ELSE ResultOf(outcome),
                    ![t].error = IF /\ outcome = "not_found"
                                    /\ op = "enable_battery_notifications"
                                 THEN "UnsupportedFeatureError" ELSE "none"]
    /\ IF outcome = "ok"
       THEN /\ _device' = [_device EXCEPT
                              !.subs[BATTERY] = IF tasks[t].args[1]
                                                THEN "_on_battery" ELSE "none"]
            /\ _battery_notifications_enabled' = tasks[t].args[1]
       ELSE UNCHANGED <<_device, _battery_notifications_enabled>>
    /\ history' =
         IF history.on
         THEN [history EXCEPT !.calls[tasks[t].locals[1]].outcome = outcome]
         ELSE history
    /\ UNCHANGED <<_emg_mode, _imu_mode, _classifier_mode, _sleep_mode,
                   _observers, connecting, delivery, violated>>

enable_battery_notifications_call(t) ==
    battery_call(t, "enable_battery_notifications", TRUE, "start_notify")

enable_battery_notifications_resume(t, outcome) ==
    battery_resume(t, "enable_battery_notifications", outcome)

disable_battery_notifications_call(t) ==
    battery_call(t, "disable_battery_notifications", FALSE, "stop_notify")

disable_battery_notifications_resume(t, outcome) ==
    battery_resume(t, "disable_battery_notifications", outcome)

NextConnect ==
    \/ connect_call
    \/ \E outcome \in LinkOutcomes : connect_resume(outcome)
    \/ disconnect_call(MaxTasks)
    \/ \E outcome \in LinkOutcomes : disconnect_resume(MaxTasks, outcome)
    \/ enable_battery_notifications_call(1)
    \/ \E outcome \in LinkOutcomes \cup {"not_found"} :
          enable_battery_notifications_resume(1, outcome)

SpecConnect == Init /\ [][NextConnect]_vars

\* The session once connect() and enable_battery_notifications() have
\* returned.
InitSubscribed ==
    /\ _emg_mode = EmgMode_NONE
    /\ _imu_mode = ImuMode_NONE
    /\ _classifier_mode = ClassifierMode_DISABLED
    /\ _sleep_mode = SleepMode_NORMAL
    /\ _battery_notifications_enabled = TRUE
    /\ _observers = [ev \in Events |-> <<>>]
    /\ _device =
         [connected |-> TRUE,
          subs |-> [c \in NotifyChars |->
                      IF c = BATTERY THEN "_on_battery"
                      ELSE LET k == CHOOSE j \in 1..Len(Subscriptions) :
                                        Subscriptions[j][1] = c
                           IN Subscriptions[k][2]],
          last_write |-> NoWrite, acked |-> NoWrite, read |-> {}]
    /\ tasks = [t \in Tasks |-> IdleTask]
    /\ connecting = [pc |-> "returned", step |-> Len(Subscriptions),
                     calls |-> ConnectCalls]
    /\ delivery = NoDelivery
    /\ violated = FALSE
    /\ history = NoHistory

\* The session once connect() has returned, a history of its Link calls kept.
InitBattery ==
    /\ _emg_mode = EmgMode_NONE
    /\ _imu_mode = ImuMode_NONE
    /\ _classifier_mode = ClassifierMode_DISABLED
    /\ _sleep_mode = SleepMode_NORMAL
    /\ _battery_notifications_enabled = FALSE
    /\ _observers = [ev \in Events |-> <<>>]
    /\ _device =
         [connected |-> TRUE,
          subs |-> [c \in NotifyChars |->
                      IF c = BATTERY THEN "none"
                      ELSE LET k == CHOOSE j \in 1..Len(Subscriptions) :
                                        Subscriptions[j][1] = c
                           IN Subscriptions[k][2]],
          last_write |-> NoWrite, acked |-> NoWrite, read |-> {}]
    /\ tasks = [t \in Tasks |-> IdleTask]
    /\ connecting = [pc |-> "returned", step |-> Len(Subscriptions),
                     calls |-> ConnectCalls]
    /\ delivery = NoDelivery
    /\ violated = FALSE
    /\ history = [on |-> TRUE, frames |-> <<>>, seen |-> <<>>, calls |-> <<>>]

\* Callers of the two battery methods, one call at a time.
NextBattery ==
    \E t \in Tasks :
        \/ InFlight = {} /\ enable_battery_notifications_call(t)
        \/ \E outcome \in LinkOutcomes \cup {"not_found"} :
              enable_battery_notifications_resume(t, outcome)
        \/ InFlight = {} /\ disable_battery_notifications_call(t)
        \/ \E outcome \in LinkOutcomes :
              disable_battery_notifications_resume(t, outcome)

SpecBattery == InitBattery /\ [][NextBattery]_vars

\* The session once connect() has returned.
InitSession ==
    /\ _emg_mode = EmgMode_NONE
    /\ _imu_mode = ImuMode_NONE
    /\ _classifier_mode = ClassifierMode_DISABLED
    /\ _sleep_mode = SleepMode_NORMAL
    /\ _battery_notifications_enabled = FALSE
    /\ _observers = [ev \in Events |-> <<>>]
    /\ _device =
         [connected |-> TRUE,
          subs |-> [c \in NotifyChars |->
                      IF c = BATTERY THEN "none"
                      ELSE LET k == CHOOSE j \in 1..Len(Subscriptions) :
                                        Subscriptions[j][1] = c
                           IN Subscriptions[k][2]],
          last_write |-> NoWrite, acked |-> NoWrite, read |-> {}]
    /\ tasks = [t \in Tasks |-> IdleTask]
    /\ connecting = [pc |-> "returned", step |-> Len(Subscriptions),
                     calls |-> ConnectCalls]
    /\ delivery = NoDelivery
    /\ violated = FALSE
    /\ history = NoHistory

\* Sessions that disconnect, connect again and turn the battery
\* notifications on and off.
NextSession ==
    \/ connect_call
    \/ \E outcome \in LinkOutcomes : connect_resume(outcome)
    \/ disconnect_call(MaxTasks)
    \/ \E outcome \in LinkOutcomes : disconnect_resume(MaxTasks, outcome)
    \/ enable_battery_notifications_call(1)
    \/ \E outcome \in LinkOutcomes \cup {"not_found"} :
          enable_battery_notifications_resume(1, outcome)
    \/ disable_battery_notifications_call(1)
    \/ \E outcome \in LinkOutcomes : disable_battery_notifications_resume(1, outcome)

SpecSession == InitSession /\ [][NextSession]_vars

-----------------------------------------------------------------------------
(* The frames the Link delivers.                                           *)

\* A 16-bit value as struct packs it with "<h" or "<H".
ShortBytes(x) == LET u == IF x < 0 THEN x + 65536 ELSE x
                 IN <<u % 256, u \div 256>>

RECURSIVE Shorts(_)
Shorts(xs) == IF xs = <<>> THEN <<>>
              ELSE ShortBytes(Head(xs)) \o Shorts(Tail(xs))

ClassifierFrames ==
    {<<1, 1, 2>>, <<1, 255, 255>>, <<1, 3, 1>>, <<1, 1, 0>>,
     <<2, 0, 0>>, <<3, 1, 0>>, <<3, 6, 0>>, <<3, 0, 1>>,
     <<4, 0, 0>>, <<5, 0, 0>>, <<6, 0, 0>>, <<9, 0, 0>>,
     <<3, 1>>, <<3, 1, 0, 0, 0, 0>>}

MotionFrames == {<<0, 1, 2>>, <<1, 3, 1>>, <<0, 1>>}

BatteryFrames == {<<100>>, <<50, 0>>}

EmgFrames ==
    {<<0, 1, 127, 128, 255, 2, 3, 4, 200, 5, 6, 7, 8, 9, 10, 129>>,
     <<0, 1, 127, 128, 255, 2, 3, 4, 200, 5, 6, 7, 8, 9, 10>>}

EmgSmoothFrames ==
    {Shorts(<<0, 1, 255, 256, 1000, 65535, 2, 3>>) \o <<0>>,
     Shorts(<<0, 1, 255, 256, 1000, 65535, 2, 3>>)}

ImuFrames ==
    {Shorts(<<16384, 0, 0, 0, 2048, 0, 0, 16, 0, 0>>),
     Shorts(<<-16384, 8192, 1, -1, -2048, 1024, 3, -16, 8, 1>>),
     Shorts(<<16384, 0, 0, 0, 2048, 0, 0, 16, 0>>) \o <<0>>}

Frames(char) ==
    CASE char = CLASSIFIER -> ClassifierFrames
      [] char = MOTION -> MotionFrames
      [] char = BATTERY -> BatteryFrames
      [] char = EMG_SMOOTH -> EmgSmoothFrames
      [] char = IMU -> ImuFrames
      [] char = EMG0 -> EmgFrames
      [] char \in {EMG1, EMG2, EMG3} -> {f \in EmgFrames : Len(f) = 16}

-----------------------------------------------------------------------------
(* A connected session: callbacks are registered and frames delivered.     *)

NextNotify ==
    \/ \E event \in Events, callback \in Callbacks : Event_call(event, callback)
    \/ \E char \in NotifyChars : \E value \in Frames(char) : Deliver(char, value)

SpecNotify == InitSubscribed /\ [][NextNotify]_vars

-----------------------------------------------------------------------------
(* A connected session whose callbacks register callbacks.                 *)

\* Registration by the application happens between notifications: the
\* callbacks of the Link run to their end on the event loop.
NextReentrant ==
    \/ /\ delivery.pc # "running"
       /\ \E event \in {"on_battery", "on_tap"}, callback \in {"f", "adds_f", "adds_itself"} :
             Event_call(event, callback)
    \/ \E d \in {<<BATTERY, <<100>>>>, <<BATTERY, <<99>>>>,
                  <<MOTION, <<0, 1, 2>>>>, <<MOTION, <<0, 1>>>>} :
          notify_begin(d[1], d[2])
    \/ notify_next

SpecReentrant == InitSubscribed /\ [][NextReentrant]_vars

-----------------------------------------------------------------------------
(* One caller: every set_mode call ends before the next one starts.        *)

ModeArgs(S) == S \cup {None}

NextMode ==
    \/ \E e \in ModeArgs(EmgMode), i \in ModeArgs(ImuMode),
          c \in ModeArgs(ClassifierMode) :
          set_mode_call(1, e, i, c)
    \/ \E outcome \in LinkOutcomes : set_mode_resume(1, outcome)

SpecMode == Init /\ [][NextMode]_vars

-----------------------------------------------------------------------------
(* Several callers: set_mode calls of one field each, overlapping freely.  *)

ConcCalls ==
    {<<EmgMode_EMG, None, None>>, <<EmgMode_NONE, None, None>>,
     <<None, ImuMode_DATA, None>>, <<None, None, ClassifierMode_ENABLED>>}

NextConc ==
    \E t \in Tasks :
        \/ \E a \in ConcCalls : set_mode_call(t, a[1], a[2], a[3])
        \/ \E outcome \in LinkOutcomes : set_mode_resume(t, outcome)

SpecConc == Init /\ [][NextConc]_vars

-----------------------------------------------------------------------------
(* A connected session that receives frames, among them a classifier      *)
(* frame of unknown type, while callbacks are registered and set_mode is   *)
(* called.                                                                 *)

RecoverFrames ==
    {<<CLASSIFIER, <<9, 0, 0>>>>, <<CLASSIFIER, <<3, 1, 0>>>>,
     <<CLASSIFIER, <<5, 0, 0>>>>, <<MOTION, <<0, 1, 2>>>>,
     <<BATTERY, <<100>>>>}

\* The exception of a notification callback leaves it (nothing in
\* _on_classifier or Event.notify catches it) and reaches the caller, the
\* BLE client.  What the client then does with the subscription is not
\* decided by this code: it may go on notifying the characteristic (no step)
\* or stop notifying it (this step).
Link_callback_raised(char) ==
    /\ delivery.char = char
    /\ delivery.error # "none"
    /\ _device.subs[char] # "none"
    /\ _device' = [_device EXCEPT !.subs[char] = "none"]
    /\ UNCHANGED <<_emg_mode, _imu_mode, _classifier_mode, _sleep_mode,
                   _battery_notifications_enabled, _observers, tasks,
                   connecting, delivery, violated, history>>

RecoverEvents == {"on_pose", "on_lock", "on_tap", "on_battery"}

RecoverCalls ==
    {<<EmgMode_EMG, None, None>>, <<None, ImuMode_DATA, ClassifierMode_ENABLED>>}

NextRecover ==
    \/ \E event \in RecoverEvents : Event_call(event, "f")
    \/ \E d \in RecoverFrames : Deliver(d[1], d[2])
    \/ \E char \in NotifyChars : Link_callback_raised(char)
    \/ \E a \in RecoverCalls : set_mode_call(1, a[1], a[2], a[3])
    \/ \E outcome \in LinkOutcomes : set_mode_resume(1, outcome)

SpecRecover == InitSubscribed /\ [][NextRecover]_vars

-----------------------------------------------------------------------------
(* One caller of the command methods, with arguments inside and outside    *)
(* the value sets of their types.                                          *)

CommandModeArgs ==
    {<<EmgMode_EMG, ImuMode_DATA, ClassifierMode_ENABLED>>,
     <<None, ImuMode_ALL, None>>, <<7, 5, 2>>, <<256, None, None>>}

Vibrate2Inputs ==
    {<<>>, <<<<100, 128>>>>,
     <<<<100, 128>>, <<200, 192>>, <<300, 255>>>>,
     <<<<100, 128>>, <<200, 192>>, <<300, 255>>, <<0, 0>>, <<0, 0>>, <<0, 0>>>>,
     <<<<1, 1>>, <<2, 2>>, <<3, 3>>, <<4, 4>>, <<5, 5>>, <<65535, 255>>>>,
     <<<<1, 1>>, <<2, 2>>, <<3, 3>>, <<4, 4>>, <<5, 5>>, <<6, 6>>, <<7, 7>>>>,
     <<<<65536, 0>>>>, <<<<1, 2, 3>>>>, <<<<1, 2, 3>>, <<4>>>>}

NextCommands ==
    \/ \E a \in CommandModeArgs : set_mode_call(1, a[1], a[2], a[3])
    \/ \E outcome \in LinkOutcomes : set_mode_resume(1, outcome)
    \/ \E sleep_mode \in {0, 1, 2, 256} : set_sleep_mode_call(1, sleep_mode)
    \/ \E outcome \in LinkOutcomes : set_sleep_mode_resume(1, outcome)
    \/ \E vibration_type \in {0, 1, 2, 3, 4} : vibrate_call(1, vibration_type)
    \/ deep_sleep_call(1)
    \/ \E logo_rgb \in {<<255, 0, 0>>, <<1, 2, 3>>}, status_rgb \in {<<0, 255, 0>>} :
          set_led_colors_call(1, logo_rgb, status_rgb)
    \/ \E steps \in Vibrate2Inputs : vibrate2_call(1, steps)
    \/ \E unlock_type \in {0, 1, 2, 3} : unlock_call(1, unlock_type)
    \/ \E action_type \in {0, 1} : user_action_call(1, action_type)
    \/ \E outcome \in LinkOutcomes : command_resume(1, outcome)
    \/ \E name \in {<<77, 121, 111>>, <<233>>, <<8364, 128564>>, <<56832>>} :
          set_name_call(1, name)
    \/ \E outcome \in LinkOutcomes \cup {"not_found"} : set_name_resume(1, outcome)

SpecCommands == Init /\ [][NextCommands]_vars

-----------------------------------------------------------------------------
(* Callers of the properties info, firmware_version, name and battery.     *)

InfoValues ==
    {<<1, 2, 3, 4, 5, 6, 1, 0, 0, 0, 1, 0, 1, 0, 0, 0, 0, 0, 0, 0>>,
     <<1, 2, 3, 4, 5, 6, 255, 0, 1, 2, 0, 1, 2, 0, 0, 0, 0, 0, 0, 0>>,
     <<1, 2, 3, 4, 5, 6, 9, 0, 0, 0, 1, 0, 1, 0, 0, 0, 0, 0, 0, 0>>,
     <<1, 2, 3>>}

FirmwareValues ==
    {<<1, 0, 5, 0, 178, 7, 2, 0>>, <<1, 0, 5, 0, 0, 1, 1, 0>>,
     <<1, 0, 5, 0, 2, 0, 7, 0>>, <<1, 0>>}

NextRead ==
    \E t \in Tasks :
        \/ info_call(t)
        \/ \E outcome \in LinkOutcomes, value \in InfoValues :
              info_resume(t, outcome, value)
        \/ firmware_version_call(t)
        \/ \E outcome \in LinkOutcomes, value \in FirmwareValues :
              firmware_version_resume(t, outcome, value)
        \/ read_call(t, "name", NAME)
        \/ \E outcome \in LinkOutcomes, value \in {<<77, 195, 169>>, <<195>>} :
              read_resume(t, "name", outcome, bytes_decode(value))
        \/ read_call(t, "battery", BATTERY)
        \/ \E outcome \in LinkOutcomes, value \in {<<87>>, <<>>} :
              read_resume(t, "battery", outcome,
                          IF Len(value) = 1
                          THEN [error |-> "none", value |-> <<value[1]>>]
                          ELSE [error |-> "TypeError", value |-> <<>>])

SpecRead == InitSubscribed /\ [][NextRead]_vars

-----------------------------------------------------------------------------
(* Callers of set_sleep_mode, overlapping freely.                          *)

NextSleep ==
    \E t \in Tasks :
        \/ \E sleep_mode \in SleepMode \cup {2} : set_sleep_mode_call(t, sleep_mode)
        \/ \E outcome \in LinkOutcomes : set_sleep_mode_resume(t, outcome)

SpecSleep == Init /\ [][NextSleep]_vars

-----------------------------------------------------------------------------
(* src/pymyo.py, the synchronous client.  Every call on the Link runs the   *)
(* event loop until the call has ended; the loop calls the listeners.       *)

\* Myo.__init__ of the synchronous client: the Link connected, the eight
\* handles subscribed to _on_notification, the caches at their defaults.
InitSync ==
    /\ _emg_mode = EmgMode_NONE
    /\ _imu_mode = ImuMode_NONE
    /\ _classifier_mode = ClassifierMode_DISABLED
    /\ _sleep_mode = SleepMode_NORMAL
    /\ _battery_notifications_enabled = FALSE
    /\ _observers = [ev \in Events |-> <<>>]
    /\ _device = [connected |-> TRUE,
                  subs |-> [c \in NotifyChars |->
                              IF c = BATTERY THEN "none" ELSE "_on_notification"],
                  last_write |-> NoWrite, acked |-> NoWrite,
                  read |-> {INFO, FIRMWARE}]
    /\ tasks = [t \in Tasks |-> IdleTask]
    /\ connecting = [pc |-> "idle", step |-> 0, calls |-> <<>>]
    /\ delivery = NoDelivery
    /\ violated = FALSE
    /\ history = NoHistory

\* What a statement on the synchronous Myo does before it calls the Link:
\* the exception it raises, the value it returns, or the Link call it makes.
\* A setter of a mode or of sleep_mode converts its value to the enumeration
\* and makes no call when the value is the cached one; _send_command writes
\* to COMMAND and the name setter to NAME, neither asking for a response;
\* vibrate2 packs the steps it is given, which must be six pairs;
\* subscribe_battery and unsubscribe_battery call a method that _Backend does
\* not have.
sync_plan(op, args) ==
    LET raises(error) ==
            [error |-> error, link |-> "none", char |-> "none",
             data |-> <<>>, value |-> <<>>]
        returns(value) ==
            [error |-> "none", link |-> "none", char |-> "none",
             data |-> <<>>, value |-> value]
        calls(link, char, data) ==
            [error |-> "none", link |-> link, char |-> char,
             data |-> data, value |-> <<>>]
        writes(char, packed) ==
            IF packed.error # "none" THEN raises(packed.error)
            ELSE calls("write", char, packed.data)
        sets(type, current, frame) ==
            IF args[1] \notin type THEN raises("ValueError")
            ELSE IF current = args[1] THEN returns(<<>>)
            ELSE writes(COMMAND, struct_pack_B(frame))
        sends(type, opcode) ==
            IF args[1] \notin type THEN raises("ValueError")
            ELSE writes(COMMAND, struct_pack_B(<<opcode, 1, args[1]>>))
    IN CASE op = "emg_mode.setter" ->
              sets(EmgMode, _emg_mode,
                   <<1, 3, args[1], _imu_mode, _classifier_mode>>)
         [] op = "imu_mode.setter" ->
              sets(ImuMode, _imu_mode,
                   <<1, 3, _emg_mode, args[1], _classifier_mode>>)
         [] op = "classifier_mode.setter" ->
              sets(ClassifierMode, _classifier_mode,
                   <<1, 3, _emg_mode, _imu_mode, args[1]>>)
         [] op = "sleep_mode.setter" ->
              sets(SleepMode, _sleep_mode, <<9, 1, args[1]>>)
         [] op = "emg_mode.getter" -> returns(<<_emg_mode>>)
         [] op = "imu_mode.getter" -> returns(<<_imu_mode>>)
         [] op = "classifier_mode.getter" -> returns(<<_classifier_mode>>)
         [] op = "sleep_mode.getter" -> returns(<<_sleep_mode>>)
         [] op = "vibrate" -> sends(VibrationType, 3)
         [] op = "unlock" -> sends(UnlockType, 10)
         [] op = "user_action" -> sends(UserActionType, 11)
         [] op = "deep_sleep" -> writes(COMMAND, Packed(<<4, 0>>))
         [] op = "set_led_colors" ->
              writes(COMMAND, set_led_colors_frame(args[1], args[2]))
         [] op = "vibrate2" ->
              LET flat == chain(args)
              IN IF /\ Len(flat) = 12
                    /\ \A k \in 1..Len(flat) :
                          IF k % 2 = 1 THEN flat[k] \in 0..65535
                          ELSE IsByte(flat[k])
                 THEN writes(COMMAND, Packed(<<7, 20>> \o pack_HB(flat)))
                 ELSE raises("struct.error")
         [] op = "name.setter" -> writes(NAME, str_encode(args[1]))
         [] op = "name.getter" -> calls("read", NAME, <<>>)
         [] op = "battery.getter" -> calls("read", BATTERY, <<>>)
         [] op = "disconnect" -> calls("disconnect", "none", <<>>)
         [] op \in {"subscribe_battery", "unsubscribe_battery"} ->
              raises("AttributeError")

\* A statement on the synchronous Myo, up to its end or to the Link call in
\* which the event loop runs.  The statement of a listener runs inside that
\* loop, while another statement waits for its Link call: there it ends
\* with RuntimeError, before the Link is called, when it needs the Link.
sync_call(t, op, args) ==
    /\ tasks[t].pc # "awaiting"
    /\ LET plan == sync_plan(op, args)
           call == [IdleTask EXCEPT !.op = op, !.pc = "done", !.args = args]
           write == [char |-> plan.char, data |-> plan.data, response |-> FALSE]
       IN IF plan.error # "none"
          THEN /\ tasks' = [tasks EXCEPT ![t] =
                              [call EXCEPT !.result = "raised",
                                           !.error = plan.error]]
               /\ UNCHANGED _device
          ELSE IF plan.link = "none"
          THEN /\ tasks' = [tasks EXCEPT ![t] =
                              [call EXCEPT !.result = "returned",
                                           !.value = plan.value]]
               /\ UNCHANGED _device
          ELSE IF InFlight # {}
          THEN /\ tasks' = [tasks EXCEPT ![t] =
                              [call EXCEPT !.result = "raised",
                                           !.error = "RuntimeError"]]
               /\ UNCHANGED _device
          ELSE /\ tasks' = [tasks EXCEPT ![t] =
                              [call EXCEPT
                                  !.pc = "awaiting",
                                  !.locals = <<plan.link>>,
                                  !.writes = IF plan.link = "write"
                                             THEN <<write>> ELSE <<>>,
                                  !.reads = IF plan.link = "read"
                                            THEN <<plan.char>> ELSE <<>>]]
               /\ _device' = IF plan.link = "write"
                             THEN [_device EXCEPT !.last_write = write]
                             ELSE _device
    /\ UNCHANGED <<_emg_mode, _imu_mode, _classifier_mode, _sleep_mode,
                   _battery_notifications_enabled, _observers, connecting,
                   delivery, violated, history>>

\* The statement from its Link call on.  A setter of a mode assigns its cache
\* after the write; the sleep_mode setter has no assignment; name decodes
\* the bytes read and battery takes ord() of them; an exception of the Link
\* ends the statement.
sync_resume(t, outcome, value) ==
    /\ tasks[t].pc = "awaiting"
    /\ tasks[t].locals \in {<<"write">>, <<"read">>, <<"disconnect">>}
    /\ LET r == tasks[t]
           decoded == IF r.op = "name.getter" THEN bytes_decode(value)
                      ELSE IF Len(value) = 1
                      THEN [error |-> "none", value |-> <<value[1]>>]
                      ELSE [error |-> "TypeError", value |-> <<>>]
           assigns(setter) == outcome = "ok" /\ r.op = setter
       IN /\ tasks' =
               IF outcome = "ok" /\ r.locals = <<"read">>
               THEN [tasks EXCEPT
                        ![t].pc = "done", ![t].link = outcome,
                        ![t].result = IF decoded.error = "none"
                                      THEN "returned" ELSE "raised",
                        ![t].error = decoded.error,
                        ![t].value = decoded.value]
               ELSE [tasks EXCEPT ![t].pc = "done", ![t].link = outcome,
                                  ![t].result = ResultOf(outcome)]
          /\ _device' =
               IF outcome # "ok" THEN _device
               ELSE IF r.locals = <<"write">>
               THEN [_device EXCEPT !.acked = r.writes[1]]
               ELSE IF r.locals = <<"disconnect">>
               THEN [_device EXCEPT !.connected = FALSE,
                                    !.subs = [c \in NotifyChars |-> "none"]]
               ELSE IF decoded.error = "none"
               THEN [_device EXCEPT !.read = @ \cup {r.reads[1]}]
               ELSE _device
          /\ _emg_mode' = IF assigns("emg_mode.setter")
                          THEN r.args[1] ELSE _emg_mode
          /\ _imu_mode' = IF assigns("imu_mode.setter")
                          THEN r.args[1] ELSE _imu_mode
          /\ _classifier_mode' = IF assigns("classifier_mode.setter")
                                 THEN r.args[1] ELSE _classifier_mode
    /\ UNCHANGED <<_sleep_mode, _battery_notifications_enabled, _observers,
                   connecting, delivery, violated, history>>

\* A program that sets and reads the modes of the synchronous Myo and
\* disconnects, one statement after the other, and a listener that reads and
\* sets sleep_mode during the Link calls of these statements.
NextSync ==
    \/ \E value \in {EmgMode_EMG, 7} : sync_call(1, "emg_mode.setter", <<value>>)
    \/ sync_call(1, "imu_mode.setter", <<ImuMode_DATA>>)
    \/ sync_call(1, "classifier_mode.setter", <<ClassifierMode_ENABLED>>)
    \/ \E value \in SleepMode \cup {2} : sync_call(1, "sleep_mode.setter", <<value>>)
    \/ \E op \in {"emg_mode.getter", "imu_mode.getter", "classifier_mode.getter"} :
          sync_call(1, op, <<>>)
    \/ sync_call(1, "disconnect", <<>>)
    \/ \E t \in {1, MaxTasks} :
          (t = 1 \/ InFlight # {}) /\ sync_call(t, "sleep_mode.getter", <<>>)
    \/ /\ InFlight # {}
       /\ \E value \in SleepMode : sync_call(MaxTasks, "sleep_mode.setter", <<value>>)
    \/ \E outcome \in {"ok", "failed"} : sync_resume(1, outcome, <<>>)

SpecSync == InitSync /\ [][NextSync]_vars

\* A program that sends commands to the synchronous Myo, names it and reads
\* its name and battery level, and a listener that sends a command during
\* the Link calls of these statements.
NextSyncCommands ==
    \/ sync_call(1, "sleep_mode.setter", <<SleepMode_NEVER_SLEEP>>)
    \/ \E vibration_type \in {1, 4} : sync_call(1, "vibrate", <<vibration_type>>)
    \/ sync_call(1, "deep_sleep", <<>>)
    \/ sync_call(1, "set_led_colors", <<<<255, 0, 0>>, <<0, 255, 0>>>>)
    \/ \E steps \in
          {<<<<100, 128>>, <<200, 192>>, <<300, 255>>, <<0, 0>>, <<0, 0>>, <<0, 0>>>>,
           <<<<100, 128>>, <<200, 192>>, <<300, 255>>>>} :
          sync_call(1, "vibrate2", steps)
    \/ sync_call(1, "unlock", <<1>>)
    \/ sync_call(1, "user_action", <<0>>)
    \/ sync_call(1, "name.setter", <<<<77, 233>>>>)
    \/ \E op \in {"name.getter", "battery.getter",
                  "subscribe_battery", "unsubscribe_battery"} :
          sync_call(1, op, <<>>)
    \/ InFlight # {} /\ sync_call(MaxTasks, "vibrate", <<1>>)
    \/ \E outcome \in {"ok", "failed"},
          value \in {<<195, 169>>, <<195>>, <<87>>} :
          sync_resume(1, outcome, value)

SpecSyncCommands == InitSync /\ [][NextSyncCommands]_vars

-----------------------------------------------------------------------------
(* A connected session that receives frames of every characteristic,       *)
(* decodable or not, between calls of set_mode and set_sleep_mode.         *)

NextQuiet ==
    \/ \E char \in NotifyChars : \E value \in Frames(char) : Deliver(char, value)
    \/ \E a \in RecoverCalls : set_mode_call(1, a[1], a[2], a[3])
    \/ \E outcome \in LinkOutcomes : set_mode_resume(1, outcome)
    \/ set_sleep_mode_call(1, SleepMode_NEVER_SLEEP)
    \/ \E outcome \in LinkOutcomes : set_sleep_mode_resume(1, outcome)

SpecQuiet == InitSubscribed /\ [][NextQuiet]_vars

-----------------------------------------------------------------------------
(* A connected session in which callbacks are registered and one caller    *)
(* sets the modes while another calls the six other commands.              *)

NextEffect ==
    \/ Event_call("on_battery", "f")
    \/ set_mode_call(1, EmgMode_EMG, None, ClassifierMode_ENABLED)
    \/ \E outcome \in LinkOutcomes : set_mode_resume(1, outcome)
    \/ set_sleep_mode_call(1, SleepMode_NEVER_SLEEP)
    \/ \E outcome \in LinkOutcomes : set_sleep_mode_resume(1, outcome)
    \/ \E t \in {MaxTasks} :
          \/ vibrate_call(t, 1)
          \/ deep_sleep_call(t)
          \/ set_led_colors_call(t, <<255, 0, 0>>, <<0, 255, 0>>)
          \/ \E steps \in
                {<<<<100, 128>>, <<200, 192>>, <<300, 255>>>>,
                 <<<<1, 2, 3>>>>,
                 <<<<1, 1>>, <<2, 2>>, <<3, 3>>, <<4, 4>>, <<5, 5>>, <<6, 6>>,
                   <<7, 7>>>>} :
                vibrate2_call(t, steps)
          \/ unlock_call(t, 1)
          \/ user_action_call(t, 0)
          \/ \E outcome \in LinkOutcomes : command_resume(t, outcome)

SpecEffect == InitSubscribed /\ [][NextEffect]_vars

-----------------------------------------------------------------------------
(* A connected session with callbacks registered that receives decodable   *)
(* frames, of which a history is kept.                                     *)

OrderFrames ==
    {<<MOTION, <<0, 1, 2>>>>, <<MOTION, <<0, 2, 1>>>>,
     <<BATTERY, <<100>>>>, <<BATTERY, <<99>>>>,
     <<CLASSIFIER, <<3, 1, 0>>>>, <<CLASSIFIER, <<3, 2, 0>>>>,
     <<CLASSIFIER, <<5, 0, 0>>>>}

InitOrder ==
    /\ _emg_mode = EmgMode_NONE
    /\ _imu_mode = ImuMode_NONE
    /\ _classifier_mode = ClassifierMode_DISABLED
    /\ _sleep_mode = SleepMode_NORMAL
    /\ _battery_notifications_enabled = TRUE
    /\ _observers = [ev \in Events |->
                       CASE ev = "on_tap" -> <<"f", "g">>
                         [] ev = "on_battery" -> <<"g">>
                         [] ev = "on_pose" -> <<"g", "f">>
                         [] ev = "on_lock" -> <<"f">>
                         [] OTHER -> <<>>]
    /\ _device =
         [connected |-> TRUE,
          subs |-> [c \in NotifyChars |->
                      IF c = BATTERY THEN "_on_battery"
                      ELSE LET k == CHOOSE j \in 1..Len(Subscriptions) :
                                        Subscriptions[j][1] = c
                           IN Subscriptions[k][2]],
          last_write |-> NoWrite, acked |-> NoWrite, read |-> {}]
    /\ tasks = [t \in Tasks |-> IdleTask]
    /\ connecting = [pc |-> "returned", step |-> Len(Subscriptions),
                     calls |-> ConnectCalls]
    /\ delivery = NoDelivery
    /\ violated = FALSE
    /\ history = [on |-> TRUE, frames |-> <<>>, seen |-> <<>>, calls |-> <<>>]

NextOrder ==
    \E d \in OrderFrames :
        /\ Len(history.frames) < MaxFrames
        /\ Deliver(d[1], d[2])

SpecOrder == InitOrder /\ [][NextOrder]_vars

-----------------------------------------------------------------------------
(* Properties of set_mode.                                                 *)

cached == <<_emg_mode, _imu_mode, _classifier_mode>>

InitialMode == <<EmgMode_NONE, ImuMode_NONE, ClassifierMode_DISABLED>>

\* The field a set_mode call asks for: its argument, or the value cached when
\* the call was made for an argument left out.
Wanted(r, k) == IF r.args[k] = None THEN r.pre[k] ELSE r.args[k]

\* C1: a set_mode call writes the single frame [1, 3, e, i, c] to COMMAND,
\* where a field left out is the value cached at the call and a field given is
\* the argument; once the call has returned, the fields left out are cached
\* unchanged and the fields given are cached as given.
C1_SetModeMergesPartialRequest ==
    \A t \in Tasks :
        LET r == tasks[t] IN
        r.op = "set_mode" =>
            /\ r.writes = <<[char |-> COMMAND,
                             data |-> <<1, 3, Wanted(r, 1), Wanted(r, 2), Wanted(r, 3)>>,
                             response |-> TRUE]>>
            /\ r.result = "returned" =>
                   \A k \in 1..3 : cached[k] = Wanted(r, k)

\* set_mode(emg_mode=EMG) called in state (imu=DATA, classifier=ENABLED) has
\* written [1,3,EMG,DATA,ENABLED] and returned.
C1_Witness ==
    /\ tasks[1].op = "set_mode"
    /\ tasks[1].result = "returned"
    /\ tasks[1].args = <<EmgMode_EMG, None, None>>
    /\ tasks[1].pre = <<EmgMode_NONE, ImuMode_DATA, ClassifierMode_ENABLED>>
    /\ _device.last_write.data = <<1, 3, 2, 1, 1>>
    /\ cached = <<EmgMode_EMG, ImuMode_DATA, ClassifierMode_ENABLED>>

\* C2: when two set_mode calls that each give one, different, field have been
\* in flight at the same time and both have returned, the cached triple and
\* the last frame written hold both fields.
C2_NoLostUpdate ==
    \A t, u \in Tasks :
        LET a == tasks[t]
            b == tasks[u]
        IN ( /\ t # u
             /\ a.op = "set_mode" /\ b.op = "set_mode"
             /\ a.result = "returned" /\ b.result = "returned"
             /\ a.overlapped /\ b.overlapped
             /\ a.args[1] # None /\ a.args[2] = None /\ a.args[3] = None
             /\ b.args[1] = None /\ b.args[2] # None /\ b.args[3] = None )
           => /\ _emg_mode = a.args[1]
              /\ _imu_mode = b.args[2]
              /\ _device.last_write.data[3] = a.args[1]
              /\ _device.last_write.data[4] = b.args[2]

\* C3: the cached triple is the triple of the last SetMode frame whose write
\* was acknowledged, or the initial triple when none has been.
C3_CacheIsLastAcknowledged ==
    cached = IF _device.acked = NoWrite
             THEN InitialMode
             ELSE SubSeq(_device.acked.data, 3, 5)

\* A write was acknowledged and a later write of another triple failed.
C3_Witness ==
    /\ tasks[1].link = "failed"
    /\ _device.acked # NoWrite
    /\ _device.acked.data # _device.last_write.data
    /\ cached # InitialMode

\* C4: a failed write is raised to the caller of set_mode and leaves the
\* cached triple as it was before the call; and whenever any of the three
\* cached fields changes, the step is the return of an acknowledged write and
\* all three fields are those of its triple after that one step.
C4_FailureLeavesModeSuccessIsAtomic ==
    /\ [](\A t \in Tasks :
            (tasks[t].op = "set_mode" /\ tasks[t].link = "failed")
                => (tasks[t].result = "raised" /\ cached = tasks[t].pre))
    /\ [][cached' # cached =>
            \E t \in Tasks :
                /\ tasks[t].pc = "awaiting"
                /\ tasks'[t].link = "ok"
                /\ tasks'[t].result = "returned"
                /\ cached' = tasks[t].locals]_vars

\* A write that would have changed the triple failed.
C4_Witness ==
    /\ tasks[1].op = "set_mode"
    /\ tasks[1].link = "failed"
    /\ tasks[1].locals # tasks[1].pre

\* C5: a set_mode call cancelled while suspended in the write ends cancelled
\* with the cached triple as it was before the call.
C5_CancelledCallChangesNothing ==
    \A t \in Tasks :
        (tasks[t].op = "set_mode" /\ tasks[t].link = "cancelled")
            => (tasks[t].result = "cancelled" /\ cached = tasks[t].pre)

\* A call that asked for another triple was cancelled in its write.
C5_Witness ==
    /\ tasks[1].op = "set_mode"
    /\ tasks[1].link = "cancelled"
    /\ tasks[1].locals # tasks[1].pre
    /\ _device.last_write.data = <<1, 3>> \o tasks[1].locals

-----------------------------------------------------------------------------
(* Properties of Event.notify and of the notification callbacks.           *)

\* The callbacks called by the last notification, in the order of the calls.
Called == [k \in 1..Len(delivery.calls) |-> delivery.calls[k].observer]

\* C6: when no registered callback raises, notify calls every entry of the
\* event's list once, in the order of registration and with the arguments of
\* notify; a callback registered k times is called k times.
C6_NotifyCallsEachEntryInOrder ==
    (delivery.event # "none"
        /\ \A k \in 1..Len(delivery.observers) : ~Raises(delivery.observers[k]))
    => /\ Called = delivery.observers
       /\ \A k \in 1..Len(delivery.calls) : delivery.calls[k].args = delivery.args
       /\ delivery.error = "none"

\* One callback registered twice on an event was called twice.
C6_Witness ==
    /\ delivery.event = "on_pose"
    /\ delivery.observers = <<"f", "f">>
    /\ Called = <<"f", "f">>
    /\ delivery.args = <<1>>

\* C7: notify calls every registered callback once, in the order of
\* registration, also when an earlier callback raises.
C7_FaultsAreIsolated ==
    delivery.event # "none" => Called = delivery.observers

\* C8: every invocation of a notification callback by the Link returns
\* normally, whatever the frame and whatever the callbacks registered do.
C8_CallbackReturnsToLink ==
    delivery.error = "none"

\* The frames a notification callback decodes: of the length of its layout
\* and, for a classifier frame, of a known event type with a defined arm and
\* x-direction (ARM_SYNCED) or a defined pose (POSE).
Decodable(char, value) ==
    CASE char = CLASSIFIER ->
            /\ Len(value) = 3
            /\ value[1] \in 1..6
            /\ value[1] = 1 => (value[2] \in Arm /\ value[3] \in XDirection)
            /\ value[1] = 3 => (value[2] + 256 * value[3]) \in Pose
      [] char = MOTION -> Len(value) = 3
      [] char = BATTERY -> Len(value) = 1
      [] char = EMG_SMOOTH -> Len(value) = 17
      [] char = IMU -> Len(value) = 20
      [] OTHER -> Len(value) = 16

\* C9: a frame whose decoding fails notifies no event and calls no callback
\* of any event.
C9_FailedDecodeDispatchesNothing ==
    (delivery.char # "none" /\ ~Decodable(delivery.char, delivery.value))
    => /\ delivery.event = "none"
       /\ delivery.calls = <<>>
       /\ delivery.error # "none"

\* A classifier frame with a pose that is not defined was delivered while a
\* callback was registered on on_pose.
C9_Witness ==
    /\ delivery.char = CLASSIFIER
    /\ delivery.value = <<3, 6, 0>>
    /\ delivery.error = "ValueError"
    /\ delivery.calls = <<>>
    /\ _observers["on_pose"] # <<>>

-----------------------------------------------------------------------------
(* Properties of connect.                                                  *)

\* The characteristics connect() subscribes to, each with the callback of
\* its own kind of frame.
OwnHandler ==
    [c \in NotifyChars \ {BATTERY} |->
        CASE c = IMU -> "_on_imu"
          [] c = MOTION -> "_on_motion"
          [] c = CLASSIFIER -> "_on_classifier"
          [] c = EMG_SMOOTH -> "_on_emg_smooth"
          [] OTHER -> "_on_emg"]

\* C11: when connect() ends with the exception of a failed start_notify, the
\* Link is not connected and no subscription is active.
C11_ConnectFailsAtomically ==
    (connecting.pc = "raised" /\ connecting.step >= 1)
    => /\ ~_device.connected
       /\ \A c \in NotifyChars : _device.subs[c] = "none"

\* C12: a connect() that returns has had its Link connect return and then
\* subscribed each of IMU, MOTION, CLASSIFIER, EMG_SMOOTH and EMG0..EMG3 once,
\* with the callback of its kind, the last of them in the step that returns;
\* the first start_notify is awaited in the step in which the Link connect
\* returns, and each later one in the step in which the one before it returns.
C12_ConnectSubscribesAllEight ==
    /\ [][(connecting.pc = "awaiting" /\ connecting'.pc = "returned")
            => /\ _device'.subs[EMG3] = OwnHandler[EMG3]
               /\ connecting'.calls[1].op = "connect"
               /\ \A c \in DOMAIN OwnHandler :
                     Cardinality({k \in 1..Len(connecting'.calls) :
                                     /\ connecting'.calls[k].op = "start_notify"
                                     /\ connecting'.calls[k].char = c}) = 1
               /\ \A k \in 2..Len(connecting'.calls) :
                     /\ connecting'.calls[k].op = "start_notify"
                     /\ connecting'.calls[k].char \in DOMAIN OwnHandler
                     /\ connecting'.calls[k].handler =
                            OwnHandler[connecting'.calls[k].char]]_vars
    /\ [][(Len(connecting.calls) >= 1
             /\ Len(connecting'.calls) > Len(connecting.calls))
            => /\ connecting.pc = "awaiting"
               /\ connecting.step = Len(connecting.calls) - 1
               /\ Len(connecting'.calls) = Len(connecting.calls) + 1
               /\ IF connecting.step = 0
                  THEN _device'.connected
                  ELSE _device'.subs[connecting.calls[Len(connecting.calls)].char]
                         = connecting.calls[Len(connecting.calls)].handler]_vars

\* connect() has returned after the Link connect and eight subscriptions.
C12_Witness ==
    /\ connecting.pc = "returned"
    /\ Len(connecting.calls) = 9
    /\ _device.connected
    /\ _device.subs[EMG3] = "_on_emg"

-----------------------------------------------------------------------------
(* Properties of the order of dispatch.                                    *)

\* The calls a sequence of frames is to produce: frame after frame, the
\* callbacks registered on the frame's event, each with the frame's event
\* and decoded values.
RECURSIVE ExpectedSeen(_, _)
ExpectedSeen(frames, k) ==
    IF k > Len(frames) THEN <<>>
    ELSE LET d == Callback(_device.subs[frames[k].char], frames[k].value)
             obs == _observers[d.event]
         IN [j \in 1..Len(obs) |->
                [observer |-> obs[j], event |-> d.event, args |-> d.args]]
            \o ExpectedSeen(frames, k + 1)

\* C13: the callbacks see one event for each decodable frame delivered, in
\* the order of delivery; all calls for a frame are made before any call for
\* the next frame, and no frame is dropped or merged with another.
C13_DispatchInDeliveryOrder ==
    history.on => history.seen = ExpectedSeen(history.frames, 1)

\* Three frames were delivered on one characteristic, the first two
\* different, and each callback registered on on_tap was called three times.
C13_Witness ==
    /\ Len(history.frames) = 3
    /\ \A k \in 1..3 : history.frames[k].char = MOTION
    /\ history.frames[1].value # history.frames[2].value
    /\ history.frames[2].value = history.frames[3].value
    /\ Len(history.seen) = 6

-----------------------------------------------------------------------------
(* Properties of the command frames.                                       *)

\* C14: set_mode called with an EMG mode in 0..3, an IMU mode in 0..4 and a
\* classifier mode in 0..1 makes exactly one write, to COMMAND, of the five
\* bytes 1, 3, emg, imu, classifier.
C14_SetModeFrameIsFiveBytes ==
    \A t \in Tasks :
        LET r == tasks[t] IN
        (/\ r.op = "set_mode"
         /\ r.args[1] \in 0..3 /\ r.args[2] \in 0..4 /\ r.args[3] \in 0..1)
        => /\ Len(r.writes) = 1
           /\ r.writes[1].char = COMMAND
           /\ Len(r.writes[1].data) = 5
           /\ r.writes[1].data = <<1, 3, r.args[1], r.args[2], r.args[3]>>
           /\ r.pc = "awaiting" => _device.last_write = r.writes[1]

\* set_mode(EMG_RAW, RAW, ENABLED) has written [1, 3, 3, 4, 1].
C14_Witness ==
    /\ tasks[1].op = "set_mode"
    /\ tasks[1].args = <<EmgMode_EMG_RAW, ImuMode_RAW, ClassifierMode_ENABLED>>
    /\ tasks[1].writes = <<WriteRecord(COMMAND, <<1, 3, 3, 4, 1>>)>>
    /\ _device.last_write.data = <<1, 3, 3, 4, 1>>

\* C15: vibrate2 called with more than 6 steps raises ValueError without
\* writing and without changing the cached modes, the sleep mode or anything
\* of the Link; called with 0 to 6 steps it does not raise ValueError.
C15_Vibrate2RejectsMoreThanSixSteps ==
    /\ [](\A t \in Tasks :
            LET r == tasks[t] IN
            r.op = "vibrate2" =>
                IF Len(r.args) > 6
                THEN /\ r.result = "raised"
                     /\ r.error = "ValueError"
                     /\ r.writes = <<>>
                     /\ r.pre = <<_emg_mode, _imu_mode, _classifier_mode, _sleep_mode>>
                ELSE r.error # "ValueError")
    /\ [][\A t \in Tasks :
            (tasks'[t].op = "vibrate2" /\ Len(tasks'[t].args) > 6)
            => UNCHANGED <<_emg_mode, _imu_mode, _classifier_mode, _sleep_mode,
                           _battery_notifications_enabled, _observers, _device>>]_vars

\* vibrate2 was called with 7 steps after an earlier command had written.
C15_Witness ==
    /\ tasks[1].op = "vibrate2"
    /\ Len(tasks[1].args) = 7
    /\ tasks[1].error = "ValueError"
    /\ _device.last_write.char = COMMAND

\* C16: vibrate2 called with the six steps (100,128), (200,192), (300,255),
\* (0,0), (0,0), (0,0), or with the first three of them only, writes the 22
\* bytes 7, 20, 100, 0, 128, 200, 0, 192, 44, 1, 255 and eleven zeros.
C16_Vibrate2LiteralFrame ==
    \A t \in Tasks :
        LET r == tasks[t] IN
        (/\ r.op = "vibrate2"
         /\ Len(r.args) \in {3, 6}
         /\ SubSeq(r.args, 1, 3) = <<<<100, 128>>, <<200, 192>>, <<300, 255>>>>
         /\ \A k \in 4..Len(r.args) : r.args[k] = <<0, 0>>)
        => /\ Len(r.writes) = 1
           /\ r.writes[1].char = COMMAND
           /\ r.writes[1].data =
                <<7, 20, 100, 0, 128, 200, 0, 192, 44, 1, 255,
                  0, 0, 0, 0, 0, 0, 0, 0, 0, 0, 0>>

\* The opcode and the payload length of each command method.
Layout ==
    [set_mode |-> <<1, 3>>, vibrate |-> <<3, 1>>, deep_sleep |-> <<4, 0>>,
     set_led_colors |-> <<6, 6>>, vibrate2 |-> <<7, 20>>,
     set_sleep_mode |-> <<9, 1>>, unlock |-> <<10, 1>>, user_action |-> <<11, 1>>]

\* C17: every frame a command method writes starts with the opcode and the
\* payload length of the method, and the payload length is the number of
\* bytes that follow the first two.
C17_FrameIsOpcodeLengthPayload ==
    \A t \in Tasks :
        LET r == tasks[t] IN
        (r.op \in DOMAIN Layout /\ r.writes # <<>>)
        => /\ r.writes[1].data[1] = Layout[r.op][1]
           /\ r.writes[1].data[2] = Layout[r.op][2]
           /\ Len(r.writes[1].data) = 2 + r.writes[1].data[2]

\* The value set of the type of each argument of the command methods that
\* take values of an enumeration.
ArgTypes ==
    [set_mode |-> <<EmgMode, ImuMode, ClassifierMode>>,
     set_sleep_mode |-> <<SleepMode>>, vibrate |-> <<VibrationType>>,
     unlock |-> <<UnlockType>>, user_action |-> <<UserActionType>>]

OutOfRange(r) ==
    /\ r.op \in DOMAIN ArgTypes
    /\ \E k \in 1..Len(r.args) :
          r.args[k] # None /\ r.args[k] \notin ArgTypes[r.op][k]

\* C18: a call of set_mode, set_sleep_mode, vibrate, unlock or user_action
\* with an argument outside the value set of its type raises, writes nothing
\* and leaves the cached modes and the sleep mode as they were.
C18_EnumArgumentsAreValidated ==
    \A t \in Tasks :
        LET r == tasks[t] IN
        OutOfRange(r)
        => /\ r.result = "raised"
           /\ r.writes = <<>>
           /\ cached \o <<_sleep_mode>> =
                 IF r.op = "set_mode" THEN r.pre \o <<_sleep_mode>> ELSE r.pre

-----------------------------------------------------------------------------
(* Properties of the classifier callback.                                  *)

\* The event a classifier frame [type, b1, b2] stands for.
ClassifierEvent(type, b1, b2) ==
    CASE type = 1 -> [event |-> "on_sync", args |-> <<b1, b2>>]
      [] type = 2 -> [event |-> "on_sync", args |-> <<255, 255>>]
      [] type = 3 -> [event |-> "on_pose", args |-> <<b1 + 256 * b2>>]
      [] type = 4 -> [event |-> "on_lock", args |-> <<FALSE>>]
      [] type = 5 -> [event |-> "on_lock", args |-> <<TRUE>>]
      [] type = 6 -> [event |-> "on_sync", args |-> <<255, 255, 1>>]

\* C19: a decodable three-byte classifier frame notifies one event: on_sync
\* with the arm and x-direction read (ARM_SYNCED), on_sync with UNKNOWN,
\* UNKNOWN (ARM_UNSYNCED), on_pose with the pose read as a 16-bit number
\* (POSE), on_lock with False (UNLOCKED) or True (LOCKED), on_sync with
\* UNKNOWN, UNKNOWN, FAILED_TOO_HARD (SYNC_FAILED); the callbacks called are
\* those registered on that event, each with these values.
C19_ClassifierFrameNotifiesItsEvent ==
    (/\ delivery.char = CLASSIFIER
     /\ Len(delivery.value) = 3
     /\ Decodable(CLASSIFIER, delivery.value))
    => LET want == ClassifierEvent(delivery.value[1], delivery.value[2],
                                   delivery.value[3])
       IN /\ delivery.event = want.event
          /\ delivery.args = want.args
          /\ Len(delivery.calls) <= Len(delivery.observers)
          /\ Len(delivery.observers) <= Len(_observers[want.event])
          /\ \A k \in 1..Len(delivery.observers) :
                delivery.observers[k] = _observers[want.event][k]
          /\ \A k \in 1..Len(delivery.calls) :
                /\ delivery.calls[k].observer = delivery.observers[k]
                /\ delivery.calls[k].args = want.args

\* The frame [6, 0, 0] was passed to a callback registered on on_sync as
\* UNKNOWN, UNKNOWN, FAILED_TOO_HARD.
C19_Witness ==
    /\ delivery.char = CLASSIFIER
    /\ delivery.value = <<6, 0, 0>>
    /\ delivery.event = "on_sync"
    /\ Len(delivery.calls) >= 1
    /\ delivery.calls[1].args = <<255, 255, 1>>

\* C20: a classifier frame of more than three bytes whose first three bytes
\* are a decodable frame notifies the event of those three bytes, whatever
\* the bytes after them.
C20_TrailingBytesAreIgnored ==
    (/\ delivery.char = CLASSIFIER
     /\ Len(delivery.value) > 3
     /\ Decodable(CLASSIFIER, SubSeq(delivery.value, 1, 3)))
    => LET want == ClassifierEvent(delivery.value[1], delivery.value[2],
                                   delivery.value[3])
       IN /\ delivery.error = "none"
          /\ delivery.event = want.event
          /\ delivery.args = want.args

-----------------------------------------------------------------------------
(* Properties of set_sleep_mode.                                           *)

\* C21: set_sleep_mode(v) writes nothing and leaves the cached sleep mode
\* when v is the cached sleep mode, and writes the one frame [9, 1, v]
\* otherwise.
C21_EqualSleepModeIsNotSent ==
    \A t \in Tasks :
        LET r == tasks[t] IN
        (r.op = "set_sleep_mode" /\ r.args[1] \in SleepMode)
        => IF r.args[1] = r.pre[4]
           THEN r.writes = <<>> /\ r.result = "returned"
           ELSE r.writes = <<WriteRecord(COMMAND, <<9, 1, r.args[1]>>)>>

-----------------------------------------------------------------------------
(* Properties of info and firmware_version.                                *)

\* C22: an access to info (to firmware_version) made after an earlier
\* access has returned a value reads nothing from the Link.
C22_FirmwareDataIsReadOnce ==
    \A t \in Tasks :
        LET r == tasks[t] IN
        (r.op \in {"info", "firmware_version"} /\ r.pre = <<TRUE>>)
        => r.reads = <<>>

-----------------------------------------------------------------------------
(* Properties of the notification callbacks as a whole.                    *)

\* C23: the invocation of a notification callback, for any frame of any
\* characteristic, leaves the cached modes, the sleep mode and the battery
\* flag as they were and makes no call on the Link: subscriptions, writes
\* and reads are as before, and so are the calls in progress.
C23_CallbacksTouchNeitherModeNorLink ==
    [][(\/ delivery'.char # delivery.char
        \/ delivery'.value # delivery.value
        \/ violated' # violated)
       => /\ UNCHANGED <<_emg_mode, _imu_mode, _classifier_mode, _sleep_mode,
                         _battery_notifications_enabled>>
          /\ UNCHANGED <<_device, tasks, connecting>>]_vars

\* An undecodable frame was delivered while a set_mode write was awaited and
\* the cached modes and the sleep mode were no longer the initial ones.
C23_Witness ==
    /\ delivery.char = IMU
    /\ delivery.error = "struct.error"
    /\ tasks[1].pc = "awaiting"
    /\ cached # InitialMode
    /\ _sleep_mode = SleepMode_NEVER_SLEEP

-----------------------------------------------------------------------------
(* Properties of the IMU and EMG callbacks.                                *)

\* The k-th 16-bit value of a frame, low byte first, in two's complement.
RawShort(value, k) ==
    LET u == value[2 * k - 1] + 256 * value[2 * k]
    IN IF u >= 32768 THEN u - 65536 ELSE u

\* The fraction q, numerator and denominator, is raw / divisor.
IsQuotient(q, raw, divisor) ==
    /\ q[2] > 0
    /\ q[1] * divisor = raw * q[2]
    /\ raw < 0 => q[1] < 0

\* C24: a 20-byte IMU frame notifies on_imu once with three arguments: the
\* first four of its ten signed 16-bit values divided by 16384, the next
\* three divided by 2048 and the last three divided by 16, negative values
\* giving negative quotients; the values 16384,0,0,0, 2048,0,0, 16,0,0 give
\* (1,0,0,0), (1,0,0), (1,0,0); each callback registered on on_imu gets
\* the three arguments in one call.
C24_ImuValuesAreScaled ==
    (delivery.char = IMU /\ Len(delivery.value) = 20)
    => /\ delivery.event = "on_imu"
       /\ Len(delivery.args) = 3
       /\ Len(delivery.args[1]) = 4
       /\ Len(delivery.args[2]) = 3
       /\ Len(delivery.args[3]) = 3
       /\ \A k \in 1..4 :
             IsQuotient(delivery.args[1][k], RawShort(delivery.value, k), 16384)
       /\ \A k \in 1..3 :
             IsQuotient(delivery.args[2][k], RawShort(delivery.value, 4 + k), 2048)
       /\ \A k \in 1..3 :
             IsQuotient(delivery.args[3][k], RawShort(delivery.value, 7 + k), 16)
       /\ delivery.value = <<0, 64, 0, 0, 0, 0, 0, 0, 0, 8, 0, 0, 0, 0, 16, 0, 0, 0, 0, 0>>
             => delivery.args = << <<<<1, 1>>, <<0, 1>>, <<0, 1>>, <<0, 1>>>>,
                                   <<<<1, 1>>, <<0, 1>>, <<0, 1>>>>,
                                   <<<<1, 1>>, <<0, 1>>, <<0, 1>>>> >>
       /\ Len(delivery.calls) <= Len(delivery.observers)
       /\ \A k \in 1..Len(delivery.calls) : delivery.calls[k].args = delivery.args
       /\ (\A k \in 1..Len(delivery.observers) : ~Raises(delivery.observers[k]))
             => Len(delivery.calls) = Len(delivery.observers)

\* A frame with negative values was passed to a callback registered on
\* on_imu: -16384 / 16384 = -1 and -1 / 16384.
C24_Witness ==
    /\ delivery.char = IMU
    /\ delivery.event = "on_imu"
    /\ Len(delivery.calls) >= 1
    /\ delivery.args[1][1] = <<-1, 1>>
    /\ delivery.args[1][4] = <<-1, 16384>>
    /\ delivery.args[3][1] = <<-1, 1>>

\* C25: a 16-byte frame of EMG0, EMG1, EMG2 or EMG3 notifies on_emg once
\* with one argument, a pair of two sequences of eight values: bytes 1 to 8
\* and bytes 9 to 16 of the frame in their order, each read as a signed
\* 8-bit value.
C25_EmgFrameIsTwoSignedSamples ==
    (delivery.char \in {EMG0, EMG1, EMG2, EMG3} /\ Len(delivery.value) = 16)
    => /\ delivery.event = "on_emg"
       /\ delivery.error \in {"none", "listener"}
       /\ Len(delivery.args) = 1
       /\ Len(delivery.args[1]) = 2
       /\ Len(delivery.args[1][1]) = 8
       /\ Len(delivery.args[1][2]) = 8
       /\ \A k \in 1..8 :
             /\ delivery.args[1][1][k] =
                    delivery.value[k] - (IF delivery.value[k] >= 128 THEN 256 ELSE 0)
             /\ delivery.args[1][2][k] =
                    delivery.value[8 + k] - (IF delivery.value[8 + k] >= 128 THEN 256 ELSE 0)
       /\ Len(delivery.calls) <= Len(delivery.observers)
       /\ \A k \in 1..Len(delivery.calls) : delivery.calls[k].args = delivery.args

\* A frame of EMG3 with bytes above 127 was passed to a callback registered
\* on on_emg.
C25_Witness ==
    /\ delivery.char = EMG3
    /\ delivery.event = "on_emg"
    /\ Len(delivery.calls) >= 1
    /\ delivery.value[4] = 128
    /\ delivery.calls[1].args[1][1][4] = -128
    /\ delivery.calls[1].args[1][2][8] = -127

-----------------------------------------------------------------------------
(* The round trip of the command frames.                                   *)

RECURSIVE unpack_HB(_)
unpack_HB(bytes) ==
    IF Len(bytes) < 3 THEN <<>>
    ELSE <<bytes[1] + 256 * bytes[2], bytes[3]>>
         \o unpack_HB(SubSeq(bytes, 4, Len(bytes)))

\* A decoder of the layout [opcode][payload-length][payload]: the command
\* and its field values, in the order of the layout, or an error for a frame
\* that is not of the layout.
decode(frame) ==
    IF Len(frame) < 2 \/ Len(frame) # 2 + frame[2]
    THEN [error |-> "length", op |-> "none", fields |-> <<>>]
    ELSE IF ~(\E c \in DOMAIN Layout : Layout[c] = <<frame[1], frame[2]>>)
    THEN [error |-> "opcode", op |-> "none", fields |-> <<>>]
    ELSE LET c == CHOOSE c \in DOMAIN Layout : Layout[c] = <<frame[1], frame[2]>>
             payload == SubSeq(frame, 3, Len(frame))
         IN [error |-> "none", op |-> c,
             fields |-> IF c = "vibrate2"
                        THEN unpack_HB(SubSeq(payload, 1, 3 * VIBRATE2_STEPS))
                        ELSE payload]

\* The field values a command call was made with, in the order of the
\* layout: the modes of set_mode after the merge, the six colour values of
\* set_led_colors, the six steps of vibrate2.
FieldsOf(r) ==
    CASE r.op = "set_mode" -> r.locals
      [] r.op = "set_led_colors" -> chain(r.args)
      [] r.op = "vibrate2" ->
            chain(r.args \o [k \in 1..(VIBRATE2_STEPS - Len(r.args)) |-> <<0, 0>>])
      [] OTHER -> r.args

\* C26: the frame written by a command method, decoded by the layout
\* [opcode][payload-length][payload], gives the command and the field
\* values of the call.
C26_FramesDecodeToTheirCommand ==
    \A t \in Tasks :
        LET r == tasks[t] IN
        (r.op \in DOMAIN Layout /\ r.writes # <<>> /\ ~OutOfRange(r))
        => /\ decode(r.writes[1].data).error = "none"
           /\ decode(r.writes[1].data).op = r.op
           /\ decode(r.writes[1].data).fields = FieldsOf(r)

-----------------------------------------------------------------------------
(* Properties of the cached sleep mode.                                    *)

\* C27: the cached sleep mode is NORMAL until a set_sleep_mode write is
\* acknowledged, and from then on the value of the last set_sleep_mode frame
\* acknowledged: a call whose write is acknowledged sets it to its argument,
\* a call whose write fails or that is cancelled leaves it.
C27_SleepModeIsLastAcknowledged ==
    /\ [](_sleep_mode = IF _device.acked.char = "none" THEN SleepMode_NORMAL
                        ELSE _device.acked.data[3])
    /\ [][\A t \in Tasks :
            (tasks[t].pc = "awaiting" /\ tasks'[t].pc = "done")
            => IF tasks'[t].link = "ok"
               THEN _sleep_mode' = tasks[t].args[1]
               ELSE _sleep_mode' = _sleep_mode]_vars

\* After an acknowledged set_sleep_mode(NEVER_SLEEP), a set_sleep_mode(NORMAL)
\* has failed: the cached sleep mode is still NEVER_SLEEP.
C27_Witness ==
    /\ tasks[1].op = "set_sleep_mode"
    /\ tasks[1].args = <<SleepMode_NORMAL>>
    /\ tasks[1].result = "raised"
    /\ tasks[1].link = "failed"
    /\ _device.acked.data = <<9, 1, 1>>
    /\ _sleep_mode = SleepMode_NEVER_SLEEP

-----------------------------------------------------------------------------
\* C28: in the synchronous client the sleep_mode accessor is the sleep mode
\* last sent with success: when the write of `myo.sleep_mode = v` returns,
\* the cached sleep mode, which the accessor returns and with which the next
\* assignment is compared, is v.
C28_SyncSleepModeIsLastSent ==
    [][\A t \in Tasks :
         (/\ tasks[t].op = "sleep_mode.setter"
          /\ tasks[t].pc = "awaiting"
          /\ tasks'[t].pc = "done"
          /\ tasks'[t].link = "ok")
         => _sleep_mode' = tasks[t].args[1]]_vars

-----------------------------------------------------------------------------
(* Properties of the battery subscription.                                 *)

\* The Link calls of the history that returned.
Acknowledged == SelectSeq(history.calls, LAMBDA c : c.outcome = "ok")

\* start_notify, stop_notify, start_notify, ...
Alternates(calls) ==
    \A k \in 1..Len(calls) :
        calls[k].op = IF k % 2 = 1 THEN "start_notify" ELSE "stop_notify"

\* C29 as stated: over calls of enable_battery_notifications and
\* disable_battery_notifications that do not overlap, the start_notify and
\* stop_notify calls made on BATTERY alternate, the first a start_notify.
C29_BatteryCallsAlternate == Alternates(history.calls)

\* C29, amended: over calls of enable_battery_notifications and
\* disable_battery_notifications that do not overlap, the start_notify and
\* stop_notify calls on BATTERY that succeed alternate, the first a
\* start_notify, and the flag is set exactly after a start_notify that
\* succeeded; a call that finds the flag as it would set it makes no Link
\* call and a call that does not makes one; a failed or cancelled
\* start_notify or stop_notify leaves the flag as it was.
C29_AcknowledgedBatteryCallsAlternate ==
    /\ [](/\ Alternates(Acknowledged)
          /\ _battery_notifications_enabled <=> (Len(Acknowledged) % 2 = 1)
          /\ \A t \in Tasks :
               tasks[t].op \in {"enable_battery_notifications",
                                "disable_battery_notifications"}
               => ((tasks[t].locals = <<>>) <=> (tasks[t].pre[1] = tasks[t].args[1])))
    /\ [][\A t \in Tasks :
            (tasks[t].pc # "awaiting" /\ tasks'[t].pc = "awaiting")
            => /\ Len(history'.calls) = Len(history.calls) + 1
               /\ history'.calls[Len(history'.calls)].op =
                    IF _battery_notifications_enabled
                    THEN "stop_notify" ELSE "start_notify"
               /\ tasks'[t].op =
                    IF _battery_notifications_enabled
                    THEN "disable_battery_notifications"
                    ELSE "enable_battery_notifications"]_vars
    /\ [][(\A t \in Tasks : tasks'[t].pc # "awaiting")
            => Len(history'.calls) = Len(history.calls)]_vars
    /\ [][\A t \in Tasks :
            (tasks[t].pc = "awaiting" /\ tasks'[t].pc = "done")
            => _battery_notifications_enabled' =
                 IF tasks'[t].link = "ok"
                 THEN tasks[t].args[1] ELSE _battery_notifications_enabled]_vars

C29_Witness ==
    /\ Len(history.calls) = 4
    /\ history.calls[1] = [op |-> "start_notify", outcome |-> "failed"]
    /\ history.calls[2] = [op |-> "start_notify", outcome |-> "ok"]
    /\ history.calls[3] = [op |-> "stop_notify", outcome |-> "cancelled"]
    /\ history.calls[4] = [op |-> "stop_notify", outcome |-> "ok"]
    /\ tasks[2].op = "disable_battery_notifications"
    /\ tasks[2].result = "returned"
    /\ tasks[2].locals = <<>>
    /\ ~_battery_notifications_enabled

-----------------------------------------------------------------------------
\* C30: the battery flag is set only while a BATTERY subscription is active
\* on the Link, and a call of enable_battery_notifications that returns
\* leaves the subscription active: also the call made after the session
\* was disconnected and connected again.
C30_FlagOnlyWhileSubscribed ==
    /\ [](_battery_notifications_enabled => _device.subs[BATTERY] = "_on_battery")
    /\ [][\A t \in Tasks :
            (/\ tasks'[t].op = "enable_battery_notifications"
             /\ tasks'[t].pc = "done"
             /\ tasks'[t].result = "returned"
             /\ tasks'[t] # tasks[t])
            => _device'.subs[BATTERY] = "_on_battery"]_vars

-----------------------------------------------------------------------------
(* Properties of the commands that keep no state.                          *)

StatelessCommands ==
    {"vibrate", "deep_sleep", "set_led_colors", "vibrate2", "unlock", "user_action"}

\* What the six commands leave alone.
KeepsSessionState ==
    /\ cached' = cached
    /\ _sleep_mode' = _sleep_mode
    /\ _battery_notifications_enabled' = _battery_notifications_enabled
    /\ _observers' = _observers

\* The arguments a command method is declared for: a byte (the value of an
\* enumeration) for vibrate, unlock and user_action, two RGB triples of bytes
\* for set_led_colors, at most six pairs of a 16-bit duration and an 8-bit
\* strength for vibrate2.
WellTyped(op, args) ==
    CASE op \in {"vibrate", "unlock", "user_action"} ->
            Len(args) = 1 /\ IsByte(args[1])
      [] op = "deep_sleep" -> TRUE
      [] op = "set_led_colors" ->
            /\ Len(args[1]) = 3 /\ Len(args[2]) = 3
            /\ \A k \in 1..3 : IsByte(args[1][k]) /\ IsByte(args[2][k])
      [] op = "vibrate2" ->
            /\ Len(args) <= VIBRATE2_STEPS
            /\ \A k \in 1..Len(args) :
                  /\ Len(args[k]) = 2
                  /\ args[k][1] \in 0..65535
                  /\ args[k][2] \in 0..255

\* C31: each call of vibrate, deep_sleep, set_led_colors, vibrate2 (at most
\* six steps), unlock and user_action with arguments of the declared kinds
\* makes exactly one Link write, on COMMAND and with a response requested:
\* the write is made when the call starts and none is made when the write
\* returns, fails or is cancelled; a call makes no write exactly when building
\* its frame raised (as it does for more than six steps, for steps that do
\* not hold two values each on average, for a value that does not fit its
\* field); and no such call changes the cached modes,
\* the cached sleep mode, the battery flag or the registered callbacks.
C31_CommandsWriteOnceAndKeepState ==
    /\ [](\A t \in Tasks :
            tasks[t].op \in StatelessCommands
            => /\ WellTyped(tasks[t].op, tasks[t].args)
                  => /\ tasks[t].error = "none"
                     /\ Len(tasks[t].writes) = 1
                     /\ tasks[t].writes[1].char = COMMAND
                     /\ tasks[t].writes[1].response
                     /\ tasks[t].pc \in {"awaiting", "done"}
               /\ (tasks[t].error = "none") <=> (Len(tasks[t].writes) = 1)
               /\ (tasks[t].error # "none") <=> (tasks[t].writes = <<>>)
               /\ \A k \in 1..Len(tasks[t].writes) :
                    /\ tasks[t].writes[k].char = COMMAND
                    /\ tasks[t].writes[k].response
               /\ (tasks[t].op = "vibrate2"
                   /\ (\/ Len(tasks[t].args) > VIBRATE2_STEPS
                       \/ Len(chain(tasks[t].args)) # 2 * Len(tasks[t].args)))
                  => tasks[t].writes = <<>>)
    /\ [][\A t \in Tasks :
            (/\ tasks[t].pc # "awaiting"
             /\ tasks'[t].pc = "awaiting"
             /\ tasks'[t].op \in StatelessCommands)
            => /\ _device'.last_write = tasks'[t].writes[1]
               /\ _device'.acked = _device.acked
               /\ KeepsSessionState]_vars
    /\ [][\A t \in Tasks :
            (/\ tasks[t].pc = "awaiting"
             /\ tasks[t].op \in StatelessCommands
             /\ tasks'[t].pc = "done")
            => /\ _device'.last_write = _device.last_write
               /\ tasks'[t].writes = tasks[t].writes
               /\ tasks'[t].link \in LinkOutcomes
               /\ _device'.acked = IF tasks'[t].link = "ok"
                                   THEN tasks[t].writes[1] ELSE _device.acked
               /\ KeepsSessionState]_vars
    /\ [][\A t \in Tasks :
            (/\ tasks[t].pc = "idle"
             /\ tasks'[t].pc = "done"
             /\ tasks'[t].op \in StatelessCommands)
            => /\ tasks'[t].result = "raised"
               /\ _device' = _device
               /\ KeepsSessionState]_vars

C31_Witness ==
    /\ tasks[2].op = "vibrate2" /\ tasks[2].pc = "done"
    /\ tasks[2].link = "failed"
    /\ Len(tasks[2].args) = 3
    /\ tasks[2].overlapped
    /\ _device.last_write = tasks[2].writes[1]
    /\ _device.acked = [char |-> COMMAND, data |-> <<4, 0>>, response |-> TRUE]
    /\ cached = <<EmgMode_EMG, ImuMode_NONE, ClassifierMode_ENABLED>>
    /\ _sleep_mode = SleepMode_NEVER_SLEEP
    /\ _battery_notifications_enabled
    /\ _observers["on_battery"] = <<"f", "f">>

-----------------------------------------------------------------------------
(* Properties of the routing of frames.                                    *)

\* The events a frame of a characteristic may notify.
Route(char) ==
    CASE char = IMU -> {"on_imu"}
      [] char = MOTION -> {"on_tap"}
      [] char = EMG_SMOOTH -> {"on_emg_smooth"}
      [] char = BATTERY -> {"on_battery"}
      [] char = CLASSIFIER -> {"on_sync", "on_pose", "on_lock"}
      [] OTHER -> {"on_emg"}

\* C32: a frame is passed to the notification callback of its
\* characteristic, and a frame that is decoded notifies one event, of those
\* of its characteristic: on_imu for IMU, on_tap for MOTION, on_emg_smooth for
\* EMG_SMOOTH, on_emg for EMG0..EMG3, on_battery for BATTERY and one of
\* on_sync, on_pose, on_lock for CLASSIFIER; the callbacks called are taken,
\* in order, from the list of that event and of no other.
C32_RoutingIsFixed ==
    delivery.char # "none"
    => /\ delivery.handler = IF delivery.char = BATTERY THEN "_on_battery"
                             ELSE OwnHandler[delivery.char]
       /\ Decodable(delivery.char, delivery.value) => delivery.event # "none"
       /\ delivery.event # "none"
          => /\ delivery.event \in Route(delivery.char)
             /\ Len(delivery.observers) <= Len(_observers[delivery.event])
             /\ \A k \in 1..Len(delivery.observers) :
                   delivery.observers[k] = _observers[delivery.event][k]
             /\ Len(delivery.calls) <= Len(delivery.observers)
             /\ \A k \in 1..Len(delivery.calls) :
                   delivery.calls[k].observer = delivery.observers[k]

\* A tap was passed to the callback registered on on_tap and not to the one
\* registered on on_battery.
C32_Witness ==
    /\ delivery.char = MOTION
    /\ delivery.value = <<0, 1, 2>>
    /\ delivery.event = "on_tap"
    /\ _observers["on_tap"] = <<"f">>
    /\ _observers["on_battery"] = <<"g">>
    /\ Called = <<"f">>

-----------------------------------------------------------------------------
\* C33: a three-byte motion frame [t, d, c] notifies on_tap with d and c as
\* read, unsigned, when t is TAP; a motion frame of another event type
\* notifies no event and calls no callback.
C33_OnlyTapFramesDispatchTap ==
    (delivery.char = MOTION /\ Len(delivery.value) = 3)
    => IF delivery.value[1] = MotionEventType_TAP
       THEN /\ delivery.event = "on_tap"
            /\ delivery.args = <<delivery.value[2], delivery.value[3]>>
       ELSE /\ delivery.event = "none"
            /\ delivery.calls = <<>>

-----------------------------------------------------------------------------
\* C34: the callbacks one notify call invokes are those registered on the
\* event when notify was called, in that order: a callback registered by a
\* callback while the call runs is not invoked by it, and the call ends
\* after as many invocations as there were callbacks registered.
C34_NotifyUsesListAtCallTime ==
    delivery.event # "none"
    => /\ Len(delivery.calls) <= Len(delivery.observers)
       /\ \A k \in 1..Len(delivery.calls) :
             k <= Len(delivery.observers)
             => delivery.calls[k].observer = delivery.observers[k]
       /\ (delivery.pc = "done" /\ delivery.error = "none")
          => Len(delivery.calls) = Len(delivery.observers)

====
